---- MODULE Spec2Model ----
(***************************************************************************)
(* slippy-find: slip resolution engine.                                    *)
(*                                                                         *)
(*   GoGitRepository.GetGitContext / GetCommitAncestry / parseRepoFromURL  *)
(*   ClickHouseAdapter.FindByCommits                                       *)
(*   SlipResolver.Resolve                                                  *)
(*   config.loadPipelineConfigWithVault and the loaders below it           *)
(*                                                                         *)
(* Strings that the code inspects character by character (remote URLs,     *)
(* secret locators) are sequences of one-character strings.  Commit ids    *)
(* are the integers 1..MaxCommits; 0 is the empty id "".  An optional      *)
(* value (a Go pointer that may be nil) is a sequence of length 0 or 1.    *)
(* An error is a record holding its errors.Is chain, outermost first; the  *)
(* nil error has the empty chain.                                          *)
(***************************************************************************)
EXTENDS Integers, Sequences, FiniteSets, TLC

\* ---------------------------------------------------------------- bounds
MaxCommits == 3
MaxDepth == 3
MaxResolves == 2

\* ------------------------------------------------------------- constants
DefaultAncestryDepth == 25

Commits == 1..MaxCommits
Depths == (0 - 1)..MaxDepth

\* ---------------------------------------------------------------- errors
NoErr == [chain |-> <<>>, args |-> <<>>]

Sentinel(name) == [chain |-> <<name>>, args |-> <<>>]

ErrRepositoryNotFound == Sentinel("ErrRepositoryNotFound")
ErrNoRemoteOrigin == Sentinel("ErrNoRemoteOrigin")
ErrInvalidRemoteURL == Sentinel("ErrInvalidRemoteURL")
ErrNoAncestorSlip == Sentinel("ErrNoAncestorSlip")
ErrEmptyAncestry == Sentinel("ErrEmptyAncestry")

\* errors of the libraries the adapters call
ErrReferenceNotFound == Sentinel("plumbing.ErrReferenceNotFound")
ErrObjectNotFound == Sentinel("plumbing.ErrObjectNotFound")
ErrRemoteNotFound == Sentinel("git.ErrRemoteNotFound")
ErrStop == Sentinel("storer.ErrStop")
ErrStoreQuery == Sentinel("store query failed")
ErrMock == Sentinel("mock error")

\* ctx.Err(): the cause recorded in the context, "none" while it is live
CtxErr(c) == IF c = "canceled" THEN Sentinel("context.Canceled")
             ELSE IF c = "deadline" THEN Sentinel("context.DeadlineExceeded")
             ELSE NoErr

\* fmt.Errorf(msg + ": %w", e)
Wrap(msg, e) == [chain |-> <<msg>> \o e.chain, args |-> e.args]

\* fmt.Errorf("%w: " + msg + ": %w", kind, e)
Wrap2(kind, msg, e) == [chain |-> kind.chain \o <<msg>> \o e.chain, args |-> e.args]

\* errors.Is(e, target) for a sentinel target
Is(e, target) == \E i \in 1..Len(e.chain) : e.chain[i] = target.chain[1]

\* ---------------------------------------------------------------- strings
WhiteSpace == {" ", "\t", "\n", "\r"}

StartsWith(s, p) == Len(s) >= Len(p) /\ SubSeq(s, 1, Len(p)) = p

EndsWith(s, p) == Len(s) >= Len(p) /\ SubSeq(s, Len(s) - Len(p) + 1, Len(s)) = p

Drop(s, n) == SubSeq(s, n + 1, Len(s))

\* index of the first occurrence of character ch in s, 0 when absent
IndexOf(s, ch) == IF \E i \in 1..Len(s) : s[i] = ch
                  THEN CHOOSE i \in 1..Len(s) : s[i] = ch /\ \A j \in 1..(i - 1) : s[j] # ch
                  ELSE 0

\* index of the last occurrence of character ch in s, 0 when absent
LastIndexOf(s, ch) == IF \E i \in 1..Len(s) : s[i] = ch
                      THEN CHOOSE i \in 1..Len(s) : s[i] = ch /\ \A j \in (i + 1)..Len(s) : s[j] # ch
                      ELSE 0

\* strings.TrimSpace
TrimSpace(s) ==
    LET keep == {i \in 1..Len(s) : s[i] \notin WhiteSpace}
    IN IF keep = {} THEN <<>>
       ELSE LET lo == CHOOSE i \in keep : \A j \in keep : i <= j
                hi == CHOOSE i \in keep : \A j \in keep : i >= j
            IN SubSeq(s, lo, hi)

DotGit == <<".", "g", "i", "t">>

\* ([^/]+?)(?:\.git)?$ applied to a last path segment without '/': the lazy
\* group takes the shortest non-empty prefix that leaves "" or ".git"
StripGit(seg) == IF EndsWith(seg, DotGit) /\ Len(seg) > Len(DotGit)
                 THEN SubSeq(seg, 1, Len(seg) - Len(DotGit))
                 ELSE seg

\* owner/name matched without the anchor at the end: what follows a second
\* '/' is left out
OwnerName_Unanchored(path) ==
    LET k == IndexOf(path, "/")
    IN IF k <= 1 THEN <<>>
       ELSE LET seg == Drop(path, k)
                j == IndexOf(seg, "/")
            IN IF Len(seg) = 0 \/ j = 1 THEN <<>>
               ELSE IF j = 0 THEN <<SubSeq(path, 1, k - 1), StripGit(seg)>>
               ELSE <<SubSeq(path, 1, k - 1), SubSeq(seg, 1, j - 1)>>

\* owner/name out of "owner/name[.git]": ([^/]+)/([^/]+?)(?:\.git)?$
\* <<>> when the text is not exactly two non-empty segments
OwnerName(path) ==
    LET k == IndexOf(path, "/")
    IN IF k <= 1 THEN <<>>
       ELSE LET seg == Drop(path, k)
            IN IF Len(seg) = 0 \/ IndexOf(seg, "/") # 0 THEN <<>>
               ELSE <<SubSeq(path, 1, k - 1), StripGit(seg)>>

\* httpsURLPattern.FindStringSubmatch: <<owner, name>> or <<>> for no match
httpsURLPattern(url) ==
    LET https == <<"h", "t", "t", "p", "s", ":", "/", "/">>
        http == <<"h", "t", "t", "p", ":", "/", "/">>
        rest == IF StartsWith(url, https) THEN <<Drop(url, Len(https))>>
                ELSE IF StartsWith(url, http) THEN <<Drop(url, Len(http))>>
                ELSE <<>>
    IN IF rest = <<>> THEN <<>>
       ELSE LET k == IndexOf(rest[1], "/")
            IN IF k <= 1 THEN <<>> ELSE OwnerName(Drop(rest[1], k))

\* sshURLPattern.FindStringSubmatch: <<owner, name>> or <<>> for no match
sshURLPattern(url) ==
    LET git == <<"g", "i", "t", "@">>
    IN IF ~StartsWith(url, git) THEN <<>>
       ELSE LET rest == Drop(url, Len(git))
                k == IndexOf(rest, ":")
            IN IF k <= 1 THEN <<>> ELSE OwnerName(Drop(rest, k))

\* parseRepoFromURL that matches the URL as given
parseRepoFromURL_NoTrim(rawurl) ==
    LET h == httpsURLPattern(rawurl)
        s == sshURLPattern(rawurl)
    IN IF h # <<>> THEN [name |-> h[1] \o <<"/">> \o h[2], ok |-> TRUE]
       ELSE IF s # <<>> THEN [name |-> s[1] \o <<"/">> \o s[2], ok |-> TRUE]
       ELSE [name |-> <<>>, ok |-> FALSE]

\* parseRepoFromURL: [name, ok]; name is owner "/" repo
parseRepoFromURL(rawurl) ==
    LET url == TrimSpace(rawurl)
        h == httpsURLPattern(url)
        s == sshURLPattern(url)
    IN IF h # <<>> THEN [name |-> h[1] \o <<"/">> \o h[2], ok |-> TRUE]
       ELSE IF s # <<>> THEN [name |-> s[1] \o <<"/">> \o s[2], ok |-> TRUE]
       ELSE [name |-> <<>>, ok |-> FALSE]


\* ------------------------------------------------------------ repository
VARIABLES
    parents,        \* commit graph: commit -> sequence of parent ids, first parent first
    head,           \* the commit HEAD resolves to: the newest one, the others
                    \* are its ancestors or commits of other branches
    impl,           \* "gogit": GoGitRepository, "mock": a test double of LocalGitRepository
    cancelled,      \* state of ctx: "none", "canceled" or "deadline"
    pc,             \* position of the running call
    caller,         \* entry point of the running call
    headRef,        \* what GetGitContext read for HEAD: [ok, name]
    origin,         \* what GetGitContext read for the origin remote: [present, urls]
    input,          \* Resolve: input.Depth as given
    depth,          \* Resolve: local variable depth
    gitCtx,         \* GetGitContext: returned *GitContext (optional)
    gitCtxErr,      \* GetGitContext: returned error
    ancArg,         \* GetCommitAncestry: the depth argument
    wdepth,         \* GetCommitAncestry: local variable depth
    heap,           \* commitIterCTime: the heap of commits still to visit
    seen,           \* commitIterCTime: commits already returned
    commits,        \* GetCommitAncestry: local variable commits
    observedCancel, \* the select on ctx.Done() fired during the walk
    ioFailed,       \* a read of the object or reference store failed during the walk
    ancCommits,     \* GetCommitAncestry: returned slice
    ancErr,         \* GetCommitAncestry: returned error
    calls,          \* collaborator calls made by Resolve, in order
    findRes,        \* FindByCommits: returned (slip, matchedCommit, err)
    out,            \* Resolve: returned *ResolveOutput (optional)
    err,            \* Resolve: returned error
    resolves,       \* Resolve calls this resolver has already returned from
    envVaultPath,   \* VAULT_PIPELINE_CONFIG_PATH, <<>> when unset
    envConfigPath,  \* SLIPPY_PIPELINE_CONFIG, "" when unset
    envMount,       \* VAULT_PIPELINE_CONFIG_MOUNT, "" when unset
    factoryErr,     \* the error the VaultClientFactory answers with
    vaultPath,      \* Vault: the path the secret is stored at
    vaultMount,     \* Vault: the mount the secret is stored under
    vaultData,      \* Vault: the key-value data of the secret
    file,           \* state of the file at SLIPPY_PIPELINE_CONFIG
    cfgPc,          \* position of the configuration call
    cfgOut,         \* returned *slippy.PipelineConfig (optional)
    cfgErr,         \* returned error
    factoryCalls,   \* number of VaultClientFactory calls made
    vaultReads,     \* GetKVSecret calls made: [path, mount]
    fileReads,      \* os.ReadFile calls made: the path
    locator,        \* parseVaultPath: the argument
    pathKey,        \* parseVaultPath: the returned (path, key)
    deps,           \* runResolve: the injected Dependencies, <<>> when nil
    args,           \* runResolve: the positional arguments
    cmdPc,          \* runResolve: position
    cmdRet,         \* runResolve: the error of the return statement reached
    writes,         \* WriteCorrelationID calls made: the id
    stdout,         \* what is on the primary output: [text, complete]
    constructed,    \* collaborators whose factory succeeded
    closes,         \* Close calls made: "repo" or "finder"
    logs,           \* log.Error and log.Warn calls made: [level, msg]
    urlParts,       \* parseRepoFromURL: what the argument was put together from
    url,            \* parseRepoFromURL: the argument
    urlPc,          \* parseRepoFromURL: position of the call
    urlOut          \* parseRepoFromURL: the returned [name, ok]

repoVars == <<parents, head, impl>>
ctxVars == <<headRef, origin, gitCtx, gitCtxErr>>
walkVars == <<ancArg, wdepth, heap, seen, commits, observedCancel, ioFailed, ancCommits, ancErr>>
resolveVars == <<input, depth, calls, findRes, out, err>>
servedVars == <<resolves>>
envVars == <<envVaultPath, envConfigPath, envMount, factoryErr, vaultPath, vaultMount,
             vaultData, file>>
loadVars == <<cfgPc, cfgOut, cfgErr, factoryCalls, vaultReads, fileReads, locator, pathKey>>
cfgVars == <<envVars, loadVars>>
runVars == <<repoVars, servedVars, cancelled, pc, caller, ctxVars, walkVars, resolveVars>>
cmdVars == <<deps, args, cmdPc, cmdRet, writes, stdout, constructed, closes, logs>>
urlVars == <<urlParts, url, urlPc, urlOut>>
vars == <<runVars, cfgVars, cmdVars, urlVars>>

\* parent lists of commit c: a root, a plain commit or a two-parent merge,
\* every parent older in creation order
ParentLists(c) ==
    {<<>>} \cup {<<p>> : p \in 1..(c - 1)}
           \cup {pq \in (1..(c - 1)) \X (1..(c - 1)) : pq[1] # pq[2]}

Graphs == {g \in [Commits -> UNION {ParentLists(c) : c \in Commits}] :
              \A c \in Commits : g[c] \in ParentLists(c)}

\* graphs that only a damaged object store presents: a head that is its own
\* parent, a merge of a commit with itself, a root that is its own parent
\* below a chain, and parent edges that close a cycle through every commit
CorruptGraphs ==
    {[c \in Commits |-> IF c = MaxCommits THEN <<c>> ELSE <<>>],
     [c \in Commits |-> IF c = 1 THEN <<>> ELSE IF c = MaxCommits THEN <<c - 1, c>> ELSE <<c - 1>>],
     [c \in Commits |-> IF c = 1 THEN <<1>> ELSE <<c - 1>>],
     [c \in Commits |-> IF c = 1 THEN <<MaxCommits>> ELSE <<c - 1>>]}

Range(s) == {s[i] : i \in 1..Len(s)}

Min(a, b) == IF a <= b THEN a ELSE b

\* the first-parent chain of graph g from commit c, c first, up to the first
\* commit whose first parent is already on the chain
RECURSIVE FirstParentWalk(_, _, _)
FirstParentWalk(g, c, visited) ==
    IF Len(g[c]) = 0 \/ g[c][1] \in visited \cup {c}
    THEN <<c>>
    ELSE <<c>> \o FirstParentWalk(g, g[c][1], visited \cup {c})

FirstParentChain(g, c) == FirstParentWalk(g, c, {})

\* reference names HEAD can resolve to
RefNames == {"refs/heads/main", "HEAD"}

\* plumbing.ReferenceName.IsBranch
IsBranch(name) == name = "refs/heads/main"

\* plumbing.ReferenceName.Short
Short(name) == IF name = "refs/heads/main" THEN "main" ELSE name

HeadRefs == {[ok |-> FALSE, name |-> "HEAD"]} \cup {[ok |-> TRUE, name |-> n] : n \in RefNames}

UrlHttps == <<"h", "t", "t", "p", "s", ":", "/", "/", "h", "/", "o", "/", "r", ".", "g", "i", "t">>
UrlSsh == <<"g", "i", "t", "@", "h", ":", "o", "/", "r">>
UrlOwnerOnly == <<"h", "t", "t", "p", "s", ":", "/", "/", "h", "/", "o">>

UrlEmpty == <<>>
UrlNoPath == <<"h", "t", "t", "p", "s", ":", "/", "/", "h">>
UrlThreeSegments == <<"h", "t", "t", "p", "s", ":", "/", "/", "h", "/", "o", "/", "r", "/", "x">>
UrlFilePath == <<"/", "p", "/", "r">>
UrlOwnerOnlySpaced == <<" ", "g", "i", "t", "@", "h", ":", "o", "\n">>

\* URLs of neither shape: no path, only an owner, more than two path segments,
\* the empty string, a file path, only an owner with whitespace around it
InvalidRemoteURLs ==
    {UrlOwnerOnly, UrlEmpty, UrlNoPath, UrlThreeSegments, UrlFilePath, UrlOwnerOnlySpaced}

RemoteURLs == {UrlHttps, UrlSsh} \cup InvalidRemoteURLs

\* configurations of the origin remote: absent, present without URL, one URL
Origins == {[present |-> FALSE, urls |-> <<>>], [present |-> TRUE, urls |-> <<>>]}
           \cup {[present |-> TRUE, urls |-> <<u>>] : u \in RemoteURLs}

\* GetGitContext that passes the library's error through when the origin
\* remote is absent
GetGitContext_RawRemoteErr(hr, og) ==
    IF ~hr.ok
    THEN [ctx |-> <<>>, err |-> Wrap("failed to get HEAD", ErrReferenceNotFound)]
    ELSE IF ~og.present
    THEN [ctx |-> <<>>, err |-> Wrap("failed to get origin remote", ErrRemoteNotFound)]
    ELSE IF Len(og.urls) = 0
    THEN [ctx |-> <<>>, err |-> Wrap("origin remote has no URLs configured", ErrNoRemoteOrigin)]
    ELSE LET parsed == parseRepoFromURL(og.urls[1])
         IN IF ~parsed.ok
            THEN [ctx |-> <<>>,
                  err |-> Wrap2(ErrInvalidRemoteURL, "failed to parse URL",
                                Sentinel("unrecognized URL format"))]
            ELSE [ctx |-> <<[HeadSHA |-> head,
                             IsDetached |-> ~IsBranch(hr.name),
                             Branch |-> IF IsBranch(hr.name) THEN Short(hr.name) ELSE "",
                             Repository |-> parsed.name]>>,
                  err |-> NoErr]

\* GoGitRepository.GetGitContext on a repository whose HEAD reads as hr and
\* whose origin remote reads as og: [ctx, err]
\* GetGitContext that refuses a head that is not on a branch
GetGitContext_DetachedIsError(hr, og) ==
    IF ~hr.ok
    THEN [ctx |-> <<>>, err |-> Wrap("failed to get HEAD", ErrReferenceNotFound)]
    ELSE IF ~IsBranch(hr.name)
    THEN [ctx |-> <<>>, err |-> Sentinel("HEAD is detached")]
    ELSE IF ~og.present
    THEN [ctx |-> <<>>,
          err |-> Wrap2(ErrNoRemoteOrigin, "failed to get origin remote", ErrRemoteNotFound)]
    ELSE IF Len(og.urls) = 0
    THEN [ctx |-> <<>>, err |-> Wrap("origin remote has no URLs configured", ErrNoRemoteOrigin)]
    ELSE LET parsed == parseRepoFromURL(og.urls[1])
         IN IF ~parsed.ok
            THEN [ctx |-> <<>>,
                  err |-> Wrap2(ErrInvalidRemoteURL, "failed to parse URL",
                                Sentinel("unrecognized URL format"))]
            ELSE [ctx |-> <<[HeadSHA |-> head,
                             IsDetached |-> ~IsBranch(hr.name),
                             Branch |-> IF IsBranch(hr.name) THEN Short(hr.name) ELSE "",
                             Repository |-> parsed.name]>>,
                  err |-> NoErr]

\* GetGitContext that looks at the origin remote before it resolves HEAD
GetGitContext_RemoteFirst(hr, og) ==
    IF ~og.present
    THEN [ctx |-> <<>>,
          err |-> Wrap2(ErrNoRemoteOrigin, "failed to get origin remote", ErrRemoteNotFound)]
    ELSE IF ~hr.ok
    THEN [ctx |-> <<>>, err |-> Wrap("failed to get HEAD", ErrReferenceNotFound)]
    ELSE IF ~og.present
    THEN [ctx |-> <<>>,
          err |-> Wrap2(ErrNoRemoteOrigin, "failed to get origin remote", ErrRemoteNotFound)]
    ELSE IF Len(og.urls) = 0
    THEN [ctx |-> <<>>, err |-> Wrap("origin remote has no URLs configured", ErrNoRemoteOrigin)]
    ELSE LET parsed == parseRepoFromURL(og.urls[1])
         IN IF ~parsed.ok
            THEN [ctx |-> <<>>,
                  err |-> Wrap2(ErrInvalidRemoteURL, "failed to parse URL",
                                Sentinel("unrecognized URL format"))]
            ELSE [ctx |-> <<[HeadSHA |-> head,
                             IsDetached |-> ~IsBranch(hr.name),
                             Branch |-> IF IsBranch(hr.name) THEN Short(hr.name) ELSE "",
                             Repository |-> parsed.name]>>,
                  err |-> NoErr]

\* GoGitRepository.GetGitContext, given what HEAD and the origin remote are
GetGitContext(hr, og) ==
    IF ~hr.ok
    THEN [ctx |-> <<>>, err |-> Wrap("failed to get HEAD", ErrReferenceNotFound)]
    ELSE IF ~og.present
    THEN [ctx |-> <<>>,
          err |-> Wrap2(ErrNoRemoteOrigin, "failed to get origin remote", ErrRemoteNotFound)]
    ELSE IF Len(og.urls) = 0
    THEN [ctx |-> <<>>, err |-> Wrap("origin remote has no URLs configured", ErrNoRemoteOrigin)]
    ELSE LET parsed == parseRepoFromURL(og.urls[1])
         IN IF ~parsed.ok
            THEN [ctx |-> <<>>,
                  err |-> Wrap2(ErrInvalidRemoteURL, "failed to parse URL",
                                Sentinel("unrecognized URL format"))]
            ELSE [ctx |-> <<[HeadSHA |-> head,
                             IsDetached |-> ~IsBranch(hr.name),
                             Branch |-> IF IsBranch(hr.name) THEN Short(hr.name) ELSE "",
                             Repository |-> parsed.name]>>,
                  err |-> NoErr]

\* answers of a test double of LocalGitRepository.GetGitContext
MockContexts ==
    {[ctx |-> <<>>, err |-> e] : e \in {ErrMock, ErrNoRemoteOrigin}}
    \cup {[ctx |-> <<[HeadSHA |-> 1, IsDetached |-> b = "", Branch |-> b,
                     Repository |-> <<"o", "/", "r">>]>>,
           err |-> NoErr] : b \in {"main", ""}}

\* answers of a test double of LocalGitRepository.GetCommitAncestry
MockAncestries ==
    {[commits |-> <<>>, err |-> e] : e \in {ErrMock, ErrEmptyAncestry}}
    \cup {[commits |-> c, err |-> NoErr] : c \in {<<>>, <<1>>, <<1, 2>>}}


\* -------------------------------------------------------- ancestry walk
\* the commits CommitIterCTime may pop next.  It pops the commit of the heap
\* with the latest committer time.  Committer times are data of the
\* repository that no rule ties to the parent edges, and every order of
\* popping is the order of some assignment of times (times falling in that
\* order), so over all repositories any commit of the heap may come out.
PopSet == heap

\* the callback without the check of the depth
Callback_NoCap(cs, c, d, cstate) ==
    IF cstate # "none" THEN [commits |-> cs, err |-> CtxErr(cstate)]
    ELSE [commits |-> Append(cs, c), err |-> NoErr]

\* the callback GetCommitAncestry passes to iter.ForEach, called with commit c
\* while cs is collected, the bound is d and the context is in state cstate
Callback(cs, c, d, cstate) ==
    IF cstate # "none" THEN [commits |-> cs, err |-> CtxErr(cstate)]
    ELSE IF Len(cs) >= d THEN [commits |-> cs, err |-> ErrStop]
    ELSE [commits |-> Append(cs, c), err |-> NoErr]

\* GetCommitAncestry that hands back what it collected along with the error
AncestryReturn_Partial(iterErr, cs) ==
    IF iterErr # NoErr /\ ~Is(iterErr, ErrStop)
    THEN [commits |-> cs, err |-> Wrap("failed to walk commit history", iterErr)]
    ELSE IF Len(cs) = 0 THEN [commits |-> <<>>, err |-> ErrEmptyAncestry]
    ELSE [commits |-> cs, err |-> NoErr]

\* what GetCommitAncestry returns once iter.ForEach has returned iterErr with
\* cs collected
AncestryReturn(iterErr, cs) ==
    IF iterErr # NoErr /\ ~Is(iterErr, ErrStop)
    THEN [commits |-> <<>>, err |-> Wrap("failed to walk commit history", iterErr)]
    ELSE IF Len(cs) = 0 THEN [commits |-> <<>>, err |-> ErrEmptyAncestry]
    ELSE [commits |-> cs, err |-> NoErr]

\* GetCommitAncestry returns
Finish(iterErr, cs) ==
    LET r == AncestryReturn(iterErr, cs)
    IN /\ ancCommits' = r.commits
       /\ ancErr' = r.err
       /\ pc' = "ancestry_done"

\* GetCommitAncestry(ctx, d) up to the creation of the iterator; a test double
\* answers at once
AncestryBegin(d) ==
    /\ ancArg' = d
    /\ observedCancel' = FALSE
    /\ IF impl = "mock"
       THEN /\ \E m \in MockAncestries :
                 /\ ancCommits' = m.commits
                 /\ ancErr' = m.err
            /\ pc' = "ancestry_done"
            /\ ioFailed' = FALSE
            /\ UNCHANGED <<wdepth, heap, seen, commits>>
       ELSE /\ wdepth' = IF d <= 0 THEN DefaultAncestryDepth ELSE d
            /\ commits' = <<>>
            /\ seen' = {}
            /\ \E io \in {"ok", "head", "object"} :
                 IF io = "head"
                 THEN /\ ancCommits' = <<>>
                      /\ ancErr' = Wrap("failed to get HEAD", ErrReferenceNotFound)
                      /\ pc' = "ancestry_done"
                      /\ ioFailed' = TRUE
                      /\ heap' = {}
                 ELSE IF io = "object"
                 THEN /\ ancCommits' = <<>>
                      /\ ancErr' = Wrap("failed to get commit object for HEAD", ErrObjectNotFound)
                      /\ pc' = "ancestry_done"
                      /\ ioFailed' = TRUE
                      /\ heap' = {}
                 ELSE /\ heap' = {head}
                      /\ pc' = "walk"
                      /\ ioFailed' = FALSE
                      /\ UNCHANGED <<ancCommits, ancErr>>

\* one round of iter.ForEach: commitIterCTime.Next, then the callback.  The
\* heap is kept as a set: a commit pushed twice is skipped by the seen check
\* the second time it is popped.
WalkStep ==
    /\ pc = "walk"
    /\ IF heap = {}
       THEN /\ Finish(NoErr, commits)
            /\ UNCHANGED <<heap, seen, commits, observedCancel, ioFailed>>
       ELSE \E c \in PopSet :
              LET seen1 == seen \cup {c}
                  push == Range(parents[c]) \ seen1
              IN \E readOK \in (IF push = {} THEN {TRUE} ELSE BOOLEAN) :
                   /\ seen' = seen1
                   /\ IF ~readOK
                      THEN /\ heap' = heap \ {c}
                           /\ ioFailed' = TRUE
                           /\ Finish(ErrObjectNotFound, commits)
                           /\ UNCHANGED <<commits, observedCancel>>
                      ELSE /\ heap' = (heap \ {c}) \cup push
                           /\ UNCHANGED ioFailed
                           /\ LET cb == Callback(commits, c, wdepth, cancelled)
                              IN /\ commits' = cb.commits
                                 /\ observedCancel' = (cancelled # "none")
                                 /\ IF cb.err = NoErr
                                    THEN pc' = "walk" /\ UNCHANGED <<ancCommits, ancErr>>
                                    ELSE Finish(IF cb.err = ErrStop THEN NoErr ELSE cb.err,
                                                cb.commits)
    /\ UNCHANGED <<urlVars, cmdVars, cfgVars, repoVars, servedVars, cancelled, caller, ctxVars, ancArg, wdepth, resolveVars>>

\* ----------------------------------------------------------------- store
CorrelationIDs == {"cid-a", "cid-b"}

NoSlip == [slip |-> <<>>, matched |-> 0, err |-> NoErr]

\* what slippy.SlipStore.FindByCommits may answer: no match, a query error,
\* or a slip together with the commit it matched
StoreAnswers ==
    {NoSlip, [slip |-> <<>>, matched |-> 0, err |-> ErrStoreQuery],
     [slip |-> <<>>, matched |-> 1, err |-> NoErr]}
    \cup {[slip |-> <<[CorrelationID |-> id]>>, matched |-> m, err |-> NoErr] :
             id \in CorrelationIDs, m \in Commits}

\* ClickHouseAdapter.FindByCommits, given the answer of the wrapped store
FindByCommits(ans) ==
    IF ans.err # NoErr THEN [slip |-> <<>>, matched |-> 0, err |-> ans.err]
    ELSE IF ans.slip = <<>> THEN NoSlip
    ELSE [slip |-> <<[CorrelationID |-> ans.slip[1].CorrelationID]>>,
          matched |-> ans.matched, err |-> NoErr]

\* -------------------------------------------------------------- resolver
Call(op, d, repo, cs) == [op |-> op, depth |-> d, repository |-> repo, commits |-> cs]

\* what one GetGitContext call reads and answers; the origin remote is read
\* only after HEAD resolved
ContextReads ==
    IF impl = "gogit"
    THEN {[hr |-> <<h>>, og |-> IF h.ok THEN <<o>> ELSE <<>>, res |-> GetGitContext(h, o)] :
             h \in HeadRefs, o \in Origins}
    ELSE {[hr |-> <<>>, og |-> <<>>, res |-> m] : m \in MockContexts}

\* Resolve that reports a missing slip as a plain error
ResolveResult_GenericNoMatch(r, ctx, cs) ==
    IF r.err # NoErr
    THEN [out |-> <<>>, err |-> Wrap("failed to find slip by commits", r.err)]
    ELSE IF r.slip = <<>>
    THEN [out |-> <<>>,
          err |-> [chain |-> <<"no slip: searched %d commits from %s">>,
                   args |-> <<Len(cs), ctx.HeadSHA>>]]
    ELSE [out |-> <<[CorrelationID |-> r.slip[1].CorrelationID,
                     MatchedCommit |-> r.matched,
                     Repository |-> ctx.Repository,
                     Branch |-> ctx.Branch,
                     ResolvedBy |-> "ancestry"]>>,
          err |-> NoErr]

\* Resolve that reports the head commit as the matched commit
ResolveResult_HeadAsMatch(r, ctx, cs) ==
    IF r.err # NoErr
    THEN [out |-> <<>>, err |-> Wrap("failed to find slip by commits", r.err)]
    ELSE IF r.slip = <<>>
    THEN [out |-> <<>>,
          err |-> [chain |-> <<"%w: searched %d commits from %s", "ErrNoAncestorSlip">>,
                   args |-> <<Len(cs), ctx.HeadSHA>>]]
    ELSE [out |-> <<[CorrelationID |-> r.slip[1].CorrelationID,
                     MatchedCommit |-> ctx.HeadSHA,
                     Repository |-> ctx.Repository,
                     Branch |-> ctx.Branch,
                     ResolvedBy |-> "ancestry"]>>,
          err |-> NoErr]

\* Resolve that reports the oldest commit it asked about as the matched commit
ResolveResult_OldestAsMatch(r, ctx, cs) ==
    IF r.err # NoErr
    THEN [out |-> <<>>, err |-> Wrap("failed to find slip by commits", r.err)]
    ELSE IF r.slip = <<>>
    THEN [out |-> <<>>,
          err |-> [chain |-> <<"%w: searched %d commits from %s", "ErrNoAncestorSlip">>,
                   args |-> <<Len(cs), ctx.HeadSHA>>]]
    ELSE [out |-> <<[CorrelationID |-> r.slip[1].CorrelationID,
                     MatchedCommit |-> cs[Len(cs)],
                     Repository |-> ctx.Repository,
                     Branch |-> ctx.Branch,
                     ResolvedBy |-> "ancestry"]>>,
          err |-> NoErr]

\* Resolve after FindByCommits answered r for context ctx and commits cs:
\* the returned [out, err]
ResolveResult(r, ctx, cs) ==
    IF r.err # NoErr
    THEN [out |-> <<>>, err |-> Wrap("failed to find slip by commits", r.err)]
    ELSE IF r.slip = <<>>
    THEN [out |-> <<>>,
          err |-> [chain |-> <<"%w: searched %d commits from %s", "ErrNoAncestorSlip">>,
                   args |-> <<Len(cs), ctx.HeadSHA>>]]
    ELSE [out |-> <<[CorrelationID |-> r.slip[1].CorrelationID,
                     MatchedCommit |-> r.matched,
                     Repository |-> ctx.Repository,
                     Branch |-> ctx.Branch,
                     ResolvedBy |-> "ancestry"]>>,
          err |-> NoErr]

\* Resolve that hands input.Depth to the walker as given
ResolveGetGitContext_RawDepth ==
    /\ pc = "idle"
    /\ \E d \in Depths, r \in ContextReads :
         /\ caller' = "Resolve"
         /\ input' = d
         /\ depth' = d
         /\ headRef' = r.hr
         /\ origin' = r.og
         /\ gitCtx' = r.res.ctx
         /\ gitCtxErr' = r.res.err
         /\ calls' = Append(calls, Call("GetGitContext", 0, <<>>, <<>>))
         /\ IF r.res.err # NoErr
            THEN /\ out' = <<>>
                 /\ err' = Wrap("failed to get git context", r.res.err)
                 /\ pc' = "done"
            ELSE /\ pc' = "resolve_ancestry"
                 /\ UNCHANGED <<out, err>>
    /\ UNCHANGED <<urlVars, cmdVars, cfgVars, repoVars, servedVars, cancelled, walkVars, findRes>>

\* Resolve(ctx, ResolveInput{Depth: d}) up to the check of GetGitContext's error
ResolveGetGitContext ==
    /\ pc = "idle"
    /\ \E d \in Depths, r \in ContextReads :
         /\ caller' = "Resolve"
         /\ input' = d
         /\ depth' = IF d <= 0 THEN DefaultAncestryDepth ELSE d
         /\ headRef' = r.hr
         /\ origin' = r.og
         /\ gitCtx' = r.res.ctx
         /\ gitCtxErr' = r.res.err
         /\ calls' = Append(calls, Call("GetGitContext", 0, <<>>, <<>>))
         /\ IF r.res.err # NoErr
            THEN /\ out' = <<>>
                 /\ err' = Wrap("failed to get git context", r.res.err)
                 /\ pc' = "done"
            ELSE /\ pc' = "resolve_ancestry"
                 /\ UNCHANGED <<out, err>>
    /\ UNCHANGED <<urlVars, cmdVars, cfgVars, repoVars, servedVars, cancelled, walkVars, findRes>>

\* Resolve calls GetCommitAncestry with its normalised depth
ResolveGetCommitAncestry ==
    /\ pc = "resolve_ancestry"
    /\ calls' = Append(calls, Call("GetCommitAncestry", depth, <<>>, <<>>))
    /\ AncestryBegin(depth)
    /\ UNCHANGED <<urlVars, cmdVars, cfgVars, repoVars, servedVars, cancelled, caller, ctxVars, input, depth, findRes, out, err>>

\* Resolve that goes on to the store query whatever GetCommitAncestry returned
ResolveAfterAncestry_IgnoreErr ==
    /\ pc = "ancestry_done"
    /\ caller = "Resolve"
    /\ pc' = "resolve_find"
    /\ UNCHANGED <<out, err>>
    /\ UNCHANGED <<urlVars, cmdVars, cfgVars, repoVars, servedVars, cancelled, caller, ctxVars, walkVars, input, depth, calls, findRes>>

\* Resolve that formats the ancestry error into a new one without wrapping it
ResolveAfterAncestry_FlatErr ==
    /\ pc = "ancestry_done"
    /\ caller = "Resolve"
    /\ IF ancErr # NoErr
       THEN /\ out' = <<>>
            /\ err' = Sentinel("failed to get commit ancestry")
            /\ pc' = "done"
       ELSE IF Len(ancCommits) = 0
       THEN /\ pc' = "panic"
            /\ UNCHANGED <<out, err>>
       ELSE /\ pc' = "resolve_find"
            /\ UNCHANGED <<out, err>>
    /\ UNCHANGED <<urlVars, cmdVars, cfgVars, repoVars, servedVars, cancelled, caller, ctxVars, walkVars, input, depth, calls, findRes>>

\* Resolve after GetCommitAncestry returned: the error check and the read of
\* commits[0] for the debug log
ResolveAfterAncestry ==
    /\ pc = "ancestry_done"
    /\ caller = "Resolve"
    /\ IF ancErr # NoErr
       THEN /\ out' = <<>>
            /\ err' = Wrap("failed to get commit ancestry", ancErr)
            /\ pc' = "done"
       ELSE IF Len(ancCommits) = 0
       THEN /\ pc' = "panic"
            /\ UNCHANGED <<out, err>>
       ELSE /\ pc' = "resolve_find"
            /\ UNCHANGED <<out, err>>
    /\ UNCHANGED <<urlVars, cmdVars, cfgVars, repoVars, servedVars, cancelled, caller, ctxVars, walkVars, input, depth, calls, findRes>>

\* Resolve that queries the finder without the head commit
ResolveFindByCommits_DropHead ==
    /\ pc = "resolve_find"
    /\ \E ans \in StoreAnswers :
         LET r == FindByCommits(ans)
             res == ResolveResult(r, gitCtx[1], ancCommits)
         IN /\ findRes' = r
            /\ out' = res.out
            /\ err' = res.err
    /\ calls' = Append(calls, Call("FindByCommits", 0, gitCtx[1].Repository, Tail(ancCommits)))
    /\ pc' = "done"
    /\ UNCHANGED <<urlVars, cmdVars, cfgVars, repoVars, servedVars, cancelled, caller, ctxVars, walkVars, input, depth>>

\* Resolve that queries the store on the first call of a resolver only
ResolveFindByCommits_FirstCallOnly ==
    /\ pc = "resolve_find"
    /\ \E ans \in (IF resolves = 0 THEN StoreAnswers ELSE {NoSlip}) :
         LET r == FindByCommits(ans)
             res == ResolveResult(r, gitCtx[1], ancCommits)
         IN /\ findRes' = r
            /\ out' = res.out
            /\ err' = res.err
    /\ calls' = IF resolves = 0
                THEN Append(calls, Call("FindByCommits", 0, gitCtx[1].Repository, ancCommits))
                ELSE calls
    /\ pc' = "done"
    /\ UNCHANGED <<urlVars, cmdVars, cfgVars, repoVars, servedVars, cancelled, caller, ctxVars, walkVars, input, depth>>

\* Resolve queries the finder and returns
ResolveFindByCommits ==
    /\ pc = "resolve_find"
    /\ \E ans \in StoreAnswers :
         LET r == FindByCommits(ans)
             res == ResolveResult(r, gitCtx[1], ancCommits)
         IN /\ findRes' = r
            /\ out' = res.out
            /\ err' = res.err
    /\ calls' = Append(calls, Call("FindByCommits", 0, gitCtx[1].Repository, ancCommits))
    /\ pc' = "done"
    /\ UNCHANGED <<urlVars, cmdVars, cfgVars, repoVars, servedVars, cancelled, caller, ctxVars, walkVars, input, depth>>

\* GetGitContext called on the adapter itself
CallGetGitContext ==
    /\ pc = "idle"
    /\ impl = "gogit"
    /\ \E r \in ContextReads :
         /\ headRef' = r.hr
         /\ origin' = r.og
         /\ gitCtx' = r.res.ctx
         /\ gitCtxErr' = r.res.err
    /\ caller' = "GetGitContext"
    /\ pc' = "done"
    /\ UNCHANGED <<urlVars, cmdVars, cfgVars, repoVars, servedVars, cancelled, walkVars, resolveVars>>

\* GetCommitAncestry called on the adapter itself, with any depth
CallGetCommitAncestry ==
    /\ pc = "idle"
    /\ impl = "gogit"
    /\ \E d \in Depths : AncestryBegin(d)
    /\ caller' = "GetCommitAncestry"
    /\ UNCHANGED <<urlVars, cmdVars, cfgVars, repoVars, servedVars, cancelled, ctxVars, resolveVars>>

\* the caller cancels ctx, or its deadline passes
Cancel ==
    /\ cancelled = "none"
    /\ pc \in {"idle", "resolve_ancestry", "walk", "resolve_find"}
    /\ cancelled' \in {"canceled", "deadline"}
    /\ UNCHANGED <<urlVars, cmdVars, cfgVars, repoVars, servedVars, pc, caller, ctxVars, walkVars, resolveVars>>

\* Resolve has returned and the caller calls the same resolver again, with a
\* new ctx.  A SlipResolver holds its two collaborators and its logger and
\* nothing else, so nothing of the call that returned is left.
ResolveAgain ==
    /\ pc = "done"
    /\ caller = "Resolve"
    /\ resolves + 1 < MaxResolves
    /\ resolves' = resolves + 1
    /\ pc' = "idle"
    /\ caller' = "none"
    /\ cancelled' = "none"
    /\ headRef' = <<>>
    /\ origin' = <<>>
    /\ gitCtx' = <<>>
    /\ gitCtxErr' = NoErr
    /\ ancArg' = 0
    /\ wdepth' = 0
    /\ heap' = {}
    /\ seen' = {}
    /\ commits' = <<>>
    /\ observedCancel' = FALSE
    /\ ioFailed' = FALSE
    /\ ancCommits' = <<>>
    /\ ancErr' = NoErr
    /\ input' = 0
    /\ depth' = 0
    /\ calls' = <<>>
    /\ findRes' = NoSlip
    /\ out' = <<>>
    /\ err' = NoErr
    /\ UNCHANGED <<urlVars, cmdVars, cfgVars, repoVars>>

\* --------------------------------------------------------- configuration
ErrPipelineConfigRequired == Sentinel("ErrPipelineConfigRequired")
ErrPipelineConfigNotFound == Sentinel("ErrPipelineConfigNotFound")
ErrPipelineConfigInvalid == Sentinel("ErrPipelineConfigInvalid")
ErrVaultClientFailed == Sentinel("ErrVaultClientFailed")
ErrVaultSecretNotFound == Sentinel("ErrVaultSecretNotFound")
ErrSecretMissing == Sentinel("secret not found")
ErrJSON == Sentinel("json error")
ErrRead == Sentinel("read error")

DefaultVaultPipelineMount == "secret"

\* names of keys of a secret and of fields of a pipeline definition
KConfig == <<"c", "o", "n", "f", "i", "g">>
KVersion == <<"v", "e", "r", "s", "i", "o", "n">>
KName == <<"n", "a", "m", "e">>
KSteps == <<"s", "t", "e", "p", "s">>
KOther == <<"k">>

DefaultSecretKey == KConfig

\* values of the loosely typed data: t is the dynamic type, s the content of a
\* string or number, a the members of an object (<<key, value>> pairs) or the
\* elements of an array
JStr(x) == [t |-> "string", s |-> x, a |-> <<>>]
JNum(x) == [t |-> "number", s |-> x, a |-> <<>>]
JArr(elems) == [t |-> "array", s |-> "", a |-> elems]
JObj(pairs) == [t |-> "object", s |-> "", a |-> pairs]
JChan == [t |-> "chan", s |-> "", a |-> <<>>]

HasKey(m, k) == \E i \in 1..Len(m) : m[i][1] = k

Lookup(m, k) == m[CHOOSE i \in 1..Len(m) : m[i][1] = k][2]

\* the pipeline definition the serialized text "valid" holds
PipelineFields ==
    <<<<KVersion, JStr("1")>>, <<KName, JStr("test-pipeline")>>,
      <<KSteps, JArr(<<JObj(<<<<KName, JStr("push_parsed")>>>>)>>)>>>>

\* the value a serialized text ("valid", "minimal", "1", "garbage": named by
\* what it holds) parses to: [ok, v]; ok is FALSE for text that is not JSON
ParseJSON(text) ==
    IF text = "valid" THEN [ok |-> TRUE, v |-> JObj(PipelineFields)]
    ELSE IF text = "minimal"
    THEN [ok |-> TRUE, v |-> JObj(<<<<KName, JStr("m")>>, <<KOther, JNum("5")>>>>)]
    ELSE IF text = "1" THEN [ok |-> TRUE, v |-> JNum("1")]
    ELSE [ok |-> FALSE, v |-> JNum("0")]

\* a string field of a struct decoded from object member list m: [ok, s]
DecodeString(m, k) ==
    IF ~HasKey(m, k) THEN [ok |-> TRUE, s |-> ""]
    ELSE IF Lookup(m, k).t = "string" THEN [ok |-> TRUE, s |-> Lookup(m, k).s]
    ELSE [ok |-> FALSE, s |-> ""]

\* the steps field: an array of objects, each with a string name: [ok, steps]
DecodeSteps(m) ==
    IF ~HasKey(m, KSteps) THEN [ok |-> TRUE, steps |-> <<>>]
    ELSE LET v == Lookup(m, KSteps)
         IN IF v.t # "array" THEN [ok |-> FALSE, steps |-> <<>>]
            ELSE IF \E i \in 1..Len(v.a) :
                       v.a[i].t # "object" \/ ~DecodeString(v.a[i].a, KName).ok
            THEN [ok |-> FALSE, steps |-> <<>>]
            ELSE [ok |-> TRUE,
                  steps |-> [i \in 1..Len(v.a) |-> DecodeString(v.a[i].a, KName).s]]

\* json.Unmarshal of a parsed value into slippy.PipelineConfig: [cfg, err];
\* members the struct does not name are ignored
Decode(v) ==
    IF v.t # "object" THEN [cfg |-> <<>>, err |-> ErrJSON]
    ELSE LET ver == DecodeString(v.a, KVersion)
             nam == DecodeString(v.a, KName)
             stp == DecodeSteps(v.a)
         IN IF ver.ok /\ nam.ok /\ stp.ok
            THEN [cfg |-> <<[version |-> ver.s, name |-> nam.s, steps |-> stp.steps]>>,
                  err |-> NoErr]
            ELSE [cfg |-> <<>>, err |-> ErrJSON]

\* json.Unmarshal([]byte(text), &config): [cfg, err]
Unmarshal(text) ==
    IF ~ParseJSON(text).ok THEN [cfg |-> <<>>, err |-> ErrJSON]
    ELSE Decode(ParseJSON(text).v)

\* json.Marshal fails on a value that has no JSON form
RECURSIVE Marshalable(_)
Marshalable(v) ==
    /\ v.t # "chan"
    /\ v.t = "array" => \A i \in 1..Len(v.a) : Marshalable(v.a[i])
    /\ v.t = "object" => \A i \in 1..Len(v.a) : Marshalable(v.a[i][2])

\* parsePipelineConfigFromVault that reads the secret's fields only
parsePipelineConfigFromVault_FieldsOnly(secretData) ==
    IF ~Marshalable(JObj(secretData))
    THEN [cfg |-> <<>>,
          err |-> Wrap2(ErrPipelineConfigInvalid, "failed to marshal secret data", ErrJSON)]
    ELSE LET r == Decode(JObj(secretData))
         IN IF r.err # NoErr
            THEN [cfg |-> <<>>, err |-> Wrap2(ErrPipelineConfigInvalid, "%w: %w", r.err)]
            ELSE r

\* parsePipelineConfigFromVault(secretData): [cfg, err]
parsePipelineConfigFromVault(secretData) ==
    IF HasKey(secretData, KConfig) /\ Lookup(secretData, KConfig).t = "string"
    THEN LET r == Unmarshal(Lookup(secretData, KConfig).s)
         IN IF r.err # NoErr
            THEN [cfg |-> <<>>, err |-> Wrap2(ErrPipelineConfigInvalid, "%w: %w", r.err)]
            ELSE r
    ELSE IF ~Marshalable(JObj(secretData))
    THEN [cfg |-> <<>>,
          err |-> Wrap2(ErrPipelineConfigInvalid, "failed to marshal secret data", ErrJSON)]
    ELSE LET r == Decode(JObj(secretData))
         IN IF r.err # NoErr
            THEN [cfg |-> <<>>, err |-> Wrap2(ErrPipelineConfigInvalid, "%w: %w", r.err)]
            ELSE r

\* VaultClient.GetKVSecret(ctx, path, mount): [data, err]
GetKVSecret(path, mount) ==
    IF path = vaultPath /\ mount = vaultMount
    THEN [data |-> vaultData, err |-> NoErr]
    ELSE [data |-> <<>>, err |-> ErrSecretMissing]

NoReads == [factory |-> 0, vault |-> <<>>, files |-> <<>>]

\* loadPipelineConfigFromVault whose fetch error leaves the path out
loadPipelineConfigFromVault_NoPath(path) ==
    IF factoryErr # NoErr
    THEN [cfg |-> <<>>, err |-> factoryErr, reads |-> [NoReads EXCEPT !.factory = 1]]
    ELSE LET mount == IF envMount = "" THEN DefaultVaultPipelineMount ELSE envMount
             secret == GetKVSecret(path, mount)
             reads == [NoReads EXCEPT !.factory = 1,
                                      !.vault = <<[path |-> path, mount |-> mount]>>]
         IN IF secret.err # NoErr
            THEN [cfg |-> <<>>,
                  err |-> Wrap2(ErrVaultSecretNotFound, "%w: %w", secret.err),
                  reads |-> reads]
            ELSE [cfg |-> parsePipelineConfigFromVault(secret.data).cfg,
                  err |-> parsePipelineConfigFromVault(secret.data).err,
                  reads |-> reads]

\* loadPipelineConfigFromVault(ctx, vaultClientFactory, path): [cfg, err, reads]
loadPipelineConfigFromVault(path) ==
    IF factoryErr # NoErr
    THEN [cfg |-> <<>>, err |-> factoryErr, reads |-> [NoReads EXCEPT !.factory = 1]]
    ELSE LET mount == IF envMount = "" THEN DefaultVaultPipelineMount ELSE envMount
             secret == GetKVSecret(path, mount)
             reads == [NoReads EXCEPT !.factory = 1,
                                      !.vault = <<[path |-> path, mount |-> mount]>>]
         IN IF secret.err # NoErr
            THEN [cfg |-> <<>>,
                  err |-> [chain |-> <<"%w at path %s: %w", "ErrVaultSecretNotFound">>
                                         \o secret.err.chain,
                           args |-> <<path>>],
                  reads |-> reads]
            ELSE [cfg |-> parsePipelineConfigFromVault(secret.data).cfg,
                  err |-> parsePipelineConfigFromVault(secret.data).err,
                  reads |-> reads]

\* states of the file: missing, present but unreadable, or readable text
Files == {[exists |-> FALSE, readable |-> FALSE, text |-> ""],
          [exists |-> TRUE, readable |-> FALSE, text |-> ""]}
         \cup {[exists |-> TRUE, readable |-> TRUE, text |-> t] : t \in {"valid", "minimal", "garbage", "1"}}

\* loadPipelineConfigFromFile that reports every read failure as not found
loadPipelineConfigFromFile_AnyReadError(path) ==
    LET reads == [NoReads EXCEPT !.files = <<path>>]
    IN IF ~file.exists \/ ~file.readable
       THEN [cfg |-> <<>>,
             err |-> [chain |-> <<"%w: %s", "ErrPipelineConfigNotFound">>, args |-> <<path>>],
             reads |-> reads]
       ELSE IF ~file.readable
       THEN [cfg |-> <<>>, err |-> Wrap("failed to read pipeline config", ErrRead),
             reads |-> reads]
       ELSE LET r == Unmarshal(file.text)
            IN IF r.err # NoErr
               THEN [cfg |-> <<>>, err |-> Wrap2(ErrPipelineConfigInvalid, "%w: %w", r.err),
                     reads |-> reads]
               ELSE [cfg |-> r.cfg, err |-> NoErr, reads |-> reads]

\* loadPipelineConfigFromFile(path): [cfg, err, reads]
loadPipelineConfigFromFile(path) ==
    LET reads == [NoReads EXCEPT !.files = <<path>>]
    IN IF ~file.exists
       THEN [cfg |-> <<>>,
             err |-> [chain |-> <<"%w: %s", "ErrPipelineConfigNotFound">>, args |-> <<path>>],
             reads |-> reads]
       ELSE IF ~file.readable
       THEN [cfg |-> <<>>, err |-> Wrap("failed to read pipeline config", ErrRead),
             reads |-> reads]
       ELSE LET r == Unmarshal(file.text)
            IN IF r.err # NoErr
               THEN [cfg |-> <<>>, err |-> Wrap2(ErrPipelineConfigInvalid, "%w: %w", r.err),
                     reads |-> reads]
               ELSE [cfg |-> r.cfg, err |-> NoErr, reads |-> reads]

\* loadPipelineConfigWithVault that turns to the file when the secret fails
loadPipelineConfigWithVault_FileOnFailure ==
    IF envVaultPath # <<>> /\ loadPipelineConfigFromVault(envVaultPath).err = NoErr
    THEN loadPipelineConfigFromVault(envVaultPath)
    ELSE IF envConfigPath = ""
    THEN [cfg |-> <<>>, err |-> ErrPipelineConfigRequired, reads |-> NoReads]
    ELSE loadPipelineConfigFromFile(envConfigPath)

\* loadPipelineConfigWithVault(ctx, vaultClientFactory): [cfg, err, reads]
loadPipelineConfigWithVault ==
    IF envVaultPath # <<>>
    THEN loadPipelineConfigFromVault(envVaultPath)
    ELSE IF envConfigPath = ""
    THEN [cfg |-> <<>>, err |-> ErrPipelineConfigRequired, reads |-> NoReads]
    ELSE loadPipelineConfigFromFile(envConfigPath)

\* parseVaultPath that splits at the first '#'
parseVaultPath_FirstHash(fullPath) ==
    LET k == IndexOf(fullPath, "#")
    IN IF k = 0 THEN [path |-> fullPath, key |-> DefaultSecretKey]
       ELSE [path |-> SubSeq(fullPath, 1, k - 1), key |-> Drop(fullPath, k)]

\* parseVaultPath(fullPath): the (path, key) of a secret locator
parseVaultPath(fullPath) ==
    LET k == LastIndexOf(fullPath, "#")
    IN IF k = 0 THEN [path |-> fullPath, key |-> DefaultSecretKey]
       ELSE [path |-> SubSeq(fullPath, 1, k - 1), key |-> Drop(fullPath, k)]

\* the pipeline definition is loaded, as LoadWithVaultClient does at startup
LoadPipelineConfig ==
    /\ cfgPc = "idle"
    /\ LET r == loadPipelineConfigWithVault
       IN /\ cfgOut' = r.cfg
          /\ cfgErr' = r.err
          /\ factoryCalls' = r.reads.factory
          /\ vaultReads' = r.reads.vault
          /\ fileReads' = r.reads.files
    /\ cfgPc' = "loaded"
    /\ UNCHANGED <<urlVars, cmdVars, runVars, envVars, locator, pathKey>>

\* a secret locator is parsed
CallParseVaultPath ==
    /\ cfgPc = "idle"
    /\ locator' = envVaultPath
    /\ pathKey' = <<parseVaultPath(envVaultPath)>>
    /\ cfgPc' = "parsed"
    /\ UNCHANGED <<urlVars, cmdVars, runVars, envVars, cfgOut, cfgErr, factoryCalls, vaultReads, fileReads>>

\* secret locators: no '#', one, a bare one at the end, two
Locators ==
    {<<"p">>, <<"p", "#", "k">>, <<"p", "#">>, <<"a", "#", "b", "#", "k">>,
     <<"p", "#", "c", "o", "n", "f", "i", "g">>}

\* what a secret may hold
Secrets ==
    {<<<<KConfig, JStr("valid")>>>>,
     <<<<KConfig, JStr("minimal")>>, <<KVersion, JStr("9")>>>>,
     <<<<KConfig, JStr("garbage")>>>>,
     <<<<KConfig, JNum("5")>>, <<KName, JStr("test-pipeline")>>>>,
     <<<<KOther, JStr("valid")>>>>,
     <<<<KName, JNum("5")>>>>,
     <<<<KOther, JChan>>>>,
     PipelineFields}

InitCfgIdle ==
    /\ envVaultPath = <<>>
    /\ envConfigPath = ""
    /\ envMount = ""
    /\ factoryErr = NoErr
    /\ vaultPath = <<"p">>
    /\ vaultMount = DefaultVaultPipelineMount
    /\ vaultData = <<>>
    /\ file = [exists |-> FALSE, readable |-> FALSE, text |-> ""]
    /\ cfgPc = "idle"
    /\ cfgOut = <<>>
    /\ cfgErr = NoErr
    /\ factoryCalls = 0
    /\ vaultReads = <<>>
    /\ fileReads = <<>>
    /\ locator = <<>>
    /\ pathKey = <<>>

InitCfg ==
    /\ envVaultPath \in Locators \cup {<<>>}
    /\ envConfigPath \in {"", "pipeline.json"}
    /\ envMount \in {"", "kv"}
    /\ factoryErr \in {NoErr, Wrap2(ErrVaultClientFailed, "%w: %w", Sentinel("vault config"))}
    /\ vaultPath \in {<<"p">>, <<"p", "#", "k">>}
    /\ vaultMount \in {DefaultVaultPipelineMount, "kv"}
    /\ vaultData \in Secrets
    /\ file \in Files
    /\ cfgPc = "idle"
    /\ cfgOut = <<>>
    /\ cfgErr = NoErr
    /\ factoryCalls = 0
    /\ vaultReads = <<>>
    /\ fileReads = <<>>
    /\ locator = <<>>
    /\ pathKey = <<>>

InitRunIdle ==
    /\ impl = "mock"
    /\ parents = [c \in Commits |-> <<>>]
    /\ head = 1
    /\ cancelled = "none"
    /\ pc = "idle"
    /\ caller = "none"
    /\ headRef = <<>>
    /\ origin = <<>>
    /\ input = 0
    /\ depth = 0
    /\ gitCtx = <<>>
    /\ gitCtxErr = NoErr
    /\ ancArg = 0
    /\ wdepth = 0
    /\ heap = {}
    /\ seen = {}
    /\ commits = <<>>
    /\ observedCancel = FALSE
    /\ ioFailed = FALSE
    /\ ancCommits = <<>>
    /\ ancErr = NoErr
    /\ calls = <<>>
    /\ findRes = NoSlip
    /\ out = <<>>
    /\ err = NoErr
    /\ resolves = 0

\* ---------------------------------------------------------------- command
\* what the injected collaborators answer
ConfigLoaderErrs == {NoErr, ErrPipelineConfigRequired}

GitRepoFactoryErrs == {NoErr, Wrap("failed to open repository", ErrRepositoryNotFound), ErrMock}

SlipFinderFactoryErrs == {NoErr, ErrMock}

\* what Resolver.Resolve answers: the correlation id of the output, or an error
ResolveAnswers ==
    {[id |-> i, err |-> NoErr] : i \in CorrelationIDs}
    \cup {[id |-> "", err |-> e] :
             e \in {Wrap("searched %d commits from %s", ErrNoAncestorSlip),
                    Wrap("failed to get git context", ErrNoRemoteOrigin),
                    Wrap("failed to query slip store", ErrStoreQuery)}}

Dependencies ==
    [configErr : ConfigLoaderErrs, repoErr : GitRepoFactoryErrs,
     finderErr : SlipFinderFactoryErrs, resolve : ResolveAnswers,
     writeErr : {NoErr, ErrMock}, repoCloseErr : {NoErr, ErrMock},
     finderCloseErr : {NoErr, ErrMock}]

\* the error of fmt.Errorf(msg) with one %s argument and nothing wrapped
Errorf(msg, arg) == [chain |-> <<msg>>, args |-> <<arg>>]

LogEntry(level, msg) == [level |-> level, msg |-> msg]

\* where a return statement of runResolve goes: the deferred calls run last
\* registered first, then the function returns
AfterReturn(made) ==
    IF "finder" \in made THEN "close_finder"
    ELSE IF "repo" \in made THEN "close_repo"
    ELSE "returned"

\* runResolve that logs a configuration failure and goes on
RunLoadConfig_NoReturn ==
    /\ cmdPc = "start"
    /\ IF deps = <<>>
       THEN /\ cmdRet' = Sentinel("dependencies not configured")
            /\ cmdPc' = "returned"
            /\ logs' = logs
       ELSE IF deps[1].configErr # NoErr
       THEN /\ logs' = Append(logs, LogEntry("error", "failed to load configuration"))
            /\ cmdRet' = cmdRet
            /\ cmdPc' = "repo"
       ELSE /\ cmdPc' = "repo"
            /\ UNCHANGED <<cmdRet, logs>>
    /\ UNCHANGED <<urlVars, runVars, cfgVars, deps, args, writes, stdout, constructed, closes>>

\* runResolve up to the configuration: nil dependencies, deps.ConfigLoader()
RunLoadConfig ==
    /\ cmdPc = "start"
    /\ IF deps = <<>>
       THEN /\ cmdRet' = Sentinel("dependencies not configured")
            /\ cmdPc' = "returned"
            /\ logs' = logs
       ELSE IF deps[1].configErr # NoErr
       THEN /\ logs' = Append(logs, LogEntry("error", "failed to load configuration"))
            /\ cmdRet' = Wrap("configuration error", deps[1].configErr)
            /\ cmdPc' = AfterReturn(constructed)
       ELSE /\ cmdPc' = "repo"
            /\ UNCHANGED <<cmdRet, logs>>
    /\ UNCHANGED <<urlVars, runVars, cfgVars, deps, args, writes, stdout, constructed, closes>>

\* deps.GitRepoFactory(repoPath, log) and the deferred gitRepo.Close()
RunOpenRepo ==
    /\ cmdPc = "repo"
    /\ LET repoPath == IF Len(args) > 0 THEN args[1] ELSE "."
       IN IF deps[1].repoErr # NoErr
          THEN /\ logs' = Append(logs, LogEntry("error", "failed to open git repository"))
               /\ cmdRet' = IF Is(deps[1].repoErr, ErrRepositoryNotFound)
                            THEN Errorf("not a git repository: %s", repoPath)
                            ELSE deps[1].repoErr
               /\ cmdPc' = AfterReturn(constructed)
               /\ constructed' = constructed
          ELSE /\ constructed' = constructed \cup {"repo"}
               /\ cmdPc' = "finder"
               /\ UNCHANGED <<cmdRet, logs>>
    /\ UNCHANGED <<urlVars, runVars, cfgVars, deps, args, writes, stdout, closes>>

\* runResolve whose Close calls sit at the end of the function, not deferred
RunNewFinder_CloseAtEnd ==
    /\ cmdPc = "finder"
    /\ IF deps[1].finderErr # NoErr
       THEN /\ logs' = Append(logs, LogEntry("error", "failed to initialize slip finder"))
            /\ cmdRet' = Wrap("database error", deps[1].finderErr)
            /\ cmdPc' = "returned"
            /\ constructed' = constructed
       ELSE /\ constructed' = constructed \cup {"finder"}
            /\ cmdPc' = "resolve"
            /\ UNCHANGED <<cmdRet, logs>>
    /\ UNCHANGED <<urlVars, runVars, cfgVars, deps, args, writes, stdout, closes>>

\* deps.SlipFinderFactory(cfg, log) and the deferred finder.Close()
RunNewFinder ==
    /\ cmdPc = "finder"
    /\ IF deps[1].finderErr # NoErr
       THEN /\ logs' = Append(logs, LogEntry("error", "failed to initialize slip finder"))
            /\ cmdRet' = Wrap("database error", deps[1].finderErr)
            /\ cmdPc' = AfterReturn(constructed)
            /\ constructed' = constructed
       ELSE /\ constructed' = constructed \cup {"finder"}
            /\ cmdPc' = "resolve"
            /\ UNCHANGED <<cmdRet, logs>>
    /\ UNCHANGED <<urlVars, runVars, cfgVars, deps, args, writes, stdout, closes>>

\* deps.ResolverFactory(gitRepo, finder, log).Resolve(ctx, input)
RunResolve ==
    /\ cmdPc = "resolve"
    /\ LET e == deps[1].resolve.err
       IN IF e # NoErr
          THEN /\ logs' = Append(logs, LogEntry("error", "failed to resolve slip"))
               /\ cmdRet' = IF Is(e, ErrNoAncestorSlip)
                            THEN Sentinel("no slip found in commit ancestry")
                            ELSE IF Is(e, ErrNoRemoteOrigin)
                            THEN Sentinel("no 'origin' remote configured")
                            ELSE e
               /\ cmdPc' = AfterReturn(constructed)
          ELSE /\ cmdPc' = "write"
               /\ UNCHANGED <<cmdRet, logs>>
    /\ UNCHANGED <<urlVars, runVars, cfgVars, deps, args, writes, stdout, constructed, closes>>

\* what a failed write of one line may leave on the output: nothing, or a
\* part of the line
FailedWrite(id) == {<<>>, <<[text |-> id, complete |-> FALSE]>>}

\* writer.WriteCorrelationID(result.CorrelationID) and the final return
RunWrite ==
    /\ cmdPc = "write"
    /\ writes' = Append(writes, deps[1].resolve.id)
    /\ IF deps[1].writeErr # NoErr
       THEN /\ \E left \in FailedWrite(deps[1].resolve.id) : stdout' = stdout \o left
            /\ logs' = Append(logs, LogEntry("error", "failed to write output"))
            /\ cmdRet' = Wrap("output error", deps[1].writeErr)
       ELSE /\ stdout' = Append(stdout, [text |-> deps[1].resolve.id, complete |-> TRUE])
            /\ cmdRet' = NoErr
            /\ logs' = logs
    /\ cmdPc' = AfterReturn(constructed)
    /\ UNCHANGED <<urlVars, runVars, cfgVars, deps, args, constructed, closes>>

\* the deferred finder.Close()
RunCloseFinder ==
    /\ cmdPc = "close_finder"
    /\ closes' = Append(closes, "finder")
    /\ logs' = IF deps[1].finderCloseErr # NoErr
               THEN Append(logs, LogEntry("warn", "failed to close slip finder"))
               ELSE logs
    /\ cmdPc' = AfterReturn(constructed \ {"finder"})
    /\ UNCHANGED <<urlVars, runVars, cfgVars, deps, args, cmdRet, writes, stdout, constructed>>

\* a deferred gitRepo.Close() whose error becomes the result
RunCloseRepo_Override ==
    /\ cmdPc = "close_repo"
    /\ closes' = Append(closes, "repo")
    /\ logs' = IF deps[1].repoCloseErr # NoErr
               THEN Append(logs, LogEntry("warn", "failed to close git repository"))
               ELSE logs
    /\ cmdRet' = IF deps[1].repoCloseErr # NoErr THEN deps[1].repoCloseErr ELSE cmdRet
    /\ cmdPc' = "returned"
    /\ UNCHANGED <<urlVars, runVars, cfgVars, deps, args, writes, stdout, constructed>>

\* the deferred gitRepo.Close()
RunCloseRepo ==
    /\ cmdPc = "close_repo"
    /\ closes' = Append(closes, "repo")
    /\ logs' = IF deps[1].repoCloseErr # NoErr
               THEN Append(logs, LogEntry("warn", "failed to close git repository"))
               ELSE logs
    /\ cmdPc' = "returned"
    /\ UNCHANGED <<urlVars, runVars, cfgVars, deps, args, cmdRet, writes, stdout, constructed>>

InitCmdIdle ==
    /\ deps = <<>>
    /\ args = <<>>
    /\ cmdPc = "idle"
    /\ cmdRet = NoErr
    /\ writes = <<>>
    /\ stdout = <<>>
    /\ constructed = {}
    /\ closes = <<>>
    /\ logs = <<>>

InitCmd ==
    /\ deps \in {<<>>} \cup {<<d>> : d \in Dependencies}
    /\ args \in {<<>>, <<"/repo">>}
    /\ cmdPc = "start"
    /\ cmdRet = NoErr
    /\ writes = <<>>
    /\ stdout = <<>>
    /\ constructed = {}
    /\ closes = <<>>
    /\ logs = <<>>

\* ------------------------------------------------------------ remote URL
\* remote URLs by what they are put together from: surrounding whitespace, a
\* scheme and host or a user and host, an owner, a name, a ".git" suffix
UrlSchemes == {<<"h", "t", "t", "p", "s", ":", "/", "/">>, <<"h", "t", "t", "p", ":", "/", "/">>}

UrlUsers == {<<"g", "i", "t">>, <<"b", "o", "b">>}

UrlOwners == {<<"o">>, <<"o", "-", "1">>}

UrlNames == {<<"r">>, <<"a", ".", "b">>}

UrlSpaces == {[lead |-> <<>>, trail |-> <<>>], [lead |-> <<" ">>, trail |-> <<>>],
              [lead |-> <<>>, trail |-> <<" ", "\n">>], [lead |-> <<"\t">>, trail |-> <<" ">>]}

UrlShapes ==
    {[kind |-> "https", head |-> sc \o <<"h">> \o <<"/">>, owner |-> o, name |-> n,
      git |-> g, space |-> w] :
        sc \in UrlSchemes, o \in UrlOwners, n \in UrlNames, g \in BOOLEAN, w \in UrlSpaces}
    \cup {[kind |-> "ssh", head |-> u \o <<"@", "h", ":">>, owner |-> o, name |-> n,
           git |-> g, space |-> w] :
             u \in UrlUsers, o \in UrlOwners, n \in UrlNames, g \in BOOLEAN, w \in UrlSpaces}
    \cup {[kind |-> "other", head |-> h, owner |-> <<"o">>, name |-> <<>>, git |-> FALSE,
           space |-> [lead |-> <<>>, trail |-> <<>>]] :
             h \in {<<>>, <<"/">>, <<"h", "t", "t", "p", "s", ":", "/", "/", "h", "/">>}}

\* the text of a URL of shape p; a shape of kind "other" has no name part
UrlText(p) ==
    p.space.lead \o p.head \o p.owner
      \o (IF p.kind = "other" THEN <<>> ELSE <<"/">> \o p.name)
      \o (IF p.git THEN DotGit ELSE <<>>) \o p.space.trail

\* parseRepoFromURL is called on a remote URL
CallParseRepoFromURL ==
    /\ urlPc = "idle"
    /\ urlOut' = <<parseRepoFromURL(url)>>
    /\ urlPc' = "parsed"
    /\ UNCHANGED <<runVars, cfgVars, cmdVars, urlParts, url>>

InitUrlIdle ==
    /\ urlParts = <<>>
    /\ url = <<>>
    /\ urlPc = "none"
    /\ urlOut = <<>>

InitUrl ==
    /\ urlParts \in {<<p>> : p \in UrlShapes}
    /\ url = UrlText(urlParts[1])
    /\ urlPc = "idle"
    /\ urlOut = <<>>

\* ------------------------------------------------------- specifications
CmdInit == InitRunIdle /\ InitCfgIdle /\ InitCmd /\ InitUrlIdle

CmdNext ==
    \/ RunLoadConfig
    \/ RunOpenRepo
    \/ RunNewFinder
    \/ RunResolve
    \/ RunWrite
    \/ RunCloseFinder
    \/ RunCloseRepo

CmdSpec == CmdInit /\ [][CmdNext]_vars

UrlInit == InitRunIdle /\ InitCfgIdle /\ InitCmdIdle /\ InitUrl

UrlNext == CallParseRepoFromURL

UrlSpec == UrlInit /\ [][UrlNext]_vars

ConfigInit == InitRunIdle /\ InitCfg /\ InitCmdIdle /\ InitUrlIdle

ConfigNext ==
    \/ LoadPipelineConfig
    \/ CallParseVaultPath

ConfigSpec == ConfigInit /\ [][ConfigNext]_vars

InitRun ==
    /\ \/ /\ impl = "gogit"
          /\ parents \in Graphs \cup CorruptGraphs
          /\ head = MaxCommits
       \/ /\ impl = "mock"
          /\ parents = [c \in Commits |-> <<>>]
          /\ head = 1
    /\ cancelled = "none"
    /\ pc = "idle"
    /\ caller = "none"
    /\ headRef = <<>>
    /\ origin = <<>>
    /\ input = 0
    /\ depth = 0
    /\ gitCtx = <<>>
    /\ gitCtxErr = NoErr
    /\ ancArg = 0
    /\ wdepth = 0
    /\ heap = {}
    /\ seen = {}
    /\ commits = <<>>
    /\ observedCancel = FALSE
    /\ ioFailed = FALSE
    /\ ancCommits = <<>>
    /\ ancErr = NoErr
    /\ calls = <<>>
    /\ findRes = NoSlip
    /\ out = <<>>
    /\ err = NoErr
    /\ resolves = 0

Init == InitRun /\ InitCfgIdle /\ InitCmdIdle /\ InitUrlIdle

Next ==
    \/ ResolveGetGitContext
    \/ ResolveGetCommitAncestry
    \/ WalkStep
    \/ ResolveAfterAncestry
    \/ ResolveFindByCommits
    \/ CallGetGitContext
    \/ CallGetCommitAncestry
    \/ Cancel
    \/ ResolveAgain

Spec == Init /\ [][Next]_vars


\* ---------------------------------------------------------------- claims
Ops == [i \in 1..Len(calls) |-> calls[i].op]

ResolveOrder == <<"GetGitContext", "GetCommitAncestry", "FindByCommits">>

\* C1: the sequence GetCommitAncestry returns holds no commit that is reachable
\* from head only through a non-first parent of a merge, that is, every
\* returned commit lies on the first-parent chain of head.
C1_FirstParentOnly ==
    (pc = "ancestry_done" /\ impl = "gogit")
        => \A i \in 1..Len(ancCommits) :
               ancCommits[i] \in Range(FirstParentChain(parents, head))

\* C2: for a depth d > 0, with no cancellation and no failed read,
\* GetCommitAncestry returns without error min(d, L) commits, L the length of
\* the first-parent chain of head, and the first of them is head.
C2_LengthMinDepthChain ==
    (pc = "ancestry_done" /\ impl = "gogit" /\ ancArg > 0 /\ ~observedCancel /\ ~ioFailed)
        => /\ ancErr = NoErr
           /\ Len(ancCommits) = Min(ancArg, Len(FirstParentChain(parents, head)))
           /\ ancCommits[1] = head

\* C3: within one Resolve the collaborators are called in the order
\* GetGitContext, GetCommitAncestry, FindByCommits, each at most once; after a
\* failed GetGitContext nothing else is called, and after a failed
\* GetCommitAncestry the store is not queried.
C3_CallOrder ==
    /\ \E n \in 0..3 : Ops = SubSeq(ResolveOrder, 1, n)
    /\ (caller = "Resolve" /\ gitCtxErr # NoErr) => Len(calls) = 1
    /\ (caller = "Resolve" /\ ancErr # NoErr) => Len(calls) <= 2

C3_Witness ==
    /\ pc = "done"
    /\ caller = "Resolve"
    /\ impl = "gogit"
    /\ ancErr # NoErr
    /\ Ops = <<"GetGitContext", "GetCommitAncestry">>

\* C4: when the context lookup and the ancestry walk succeeded and
\* FindByCommits returned no slip and no error, Resolve returns a nil output
\* and an error that is ErrNoAncestorSlip and carries the number of commits
\* searched and the head commit.
C4_NoAncestorSlip ==
    (/\ pc = "done"
     /\ caller = "Resolve"
     /\ gitCtxErr = NoErr
     /\ ancErr = NoErr
     /\ Len(calls) = 3
     /\ findRes.slip = <<>>
     /\ findRes.err = NoErr)
        => /\ out = <<>>
           /\ Is(err, ErrNoAncestorSlip)
           /\ err.args = <<Len(ancCommits), gitCtx[1].HeadSHA>>

C4_Witness ==
    /\ pc = "done"
    /\ caller = "Resolve"
    /\ impl = "gogit"
    /\ Len(calls) = 3
    /\ findRes = NoSlip
    /\ Len(ancCommits) >= 2
    /\ Is(err, ErrNoAncestorSlip)

\* C5: a successful Resolve returns the correlation id of the slip and the
\* matched commit the finder returned, the repository and branch of the
\* context obtained in the same call, and ResolvedBy "ancestry".
C5_OutputFields ==
    (pc = "done" /\ caller = "Resolve" /\ err = NoErr)
        => /\ out # <<>>
           /\ findRes.slip # <<>>
           /\ gitCtx # <<>>
           /\ out[1].CorrelationID = findRes.slip[1].CorrelationID
           /\ out[1].MatchedCommit = findRes.matched
           /\ out[1].Repository = gitCtx[1].Repository
           /\ out[1].Branch = gitCtx[1].Branch
           /\ out[1].ResolvedBy = "ancestry"

C5_Witness ==
    /\ pc = "done"
    /\ caller = "Resolve"
    /\ impl = "gogit"
    /\ err = NoErr
    /\ out # <<>>
    /\ Len(ancCommits) >= 2
    /\ out[1].MatchedCommit = ancCommits[2]

\* C6: the store query of a Resolve call is made once, with the repository
\* name of the context obtained in that call and with the commit sequence the
\* ancestry walk returned, unchanged.
C6_StoreArgs ==
    /\ Cardinality({i \in 1..Len(calls) : calls[i].op = "FindByCommits"}) <= 1
    /\ \A i \in 1..Len(calls) :
         calls[i].op = "FindByCommits"
            => /\ gitCtx # <<>>
               /\ calls[i].repository = gitCtx[1].Repository
               /\ calls[i].commits = ancCommits

C6_Witness ==
    /\ impl = "gogit"
    /\ Len(calls) = 3
    /\ calls[3].op = "FindByCommits"
    /\ Len(calls[3].commits) >= 2

\* C7: once the walk has seen ctx cancelled, GetCommitAncestry returns a nil
\* sequence and an error that is ctx.Err(); what had been collected is not
\* returned.
C7_CancelNoPartial ==
    observedCancel
        => /\ pc # "walk"
           /\ ancCommits = <<>>
           /\ cancelled # "none"
           /\ Is(ancErr, CtxErr(cancelled))

C7_Witness ==
    /\ pc = "ancestry_done"
    /\ observedCancel
    /\ Len(commits) >= 1

\* C8: when HEAD resolves and the origin remote is absent or has no URL,
\* GetGitContext returns a nil context and an error that is ErrNoRemoteOrigin,
\* and a Resolve that made the call returns an error that is ErrNoRemoteOrigin.
C8_NoRemoteOrigin ==
    (/\ impl = "gogit"
     /\ headRef # <<>>
     /\ origin # <<>>
     /\ headRef[1].ok
     /\ (~origin[1].present \/ Len(origin[1].urls) = 0))
        => /\ gitCtx = <<>>
           /\ Is(gitCtxErr, ErrNoRemoteOrigin)
           /\ caller = "Resolve" => (pc = "done" /\ out = <<>> /\ Is(err, ErrNoRemoteOrigin))

C8_Witness ==
    /\ impl = "gogit"
    /\ caller = "Resolve"
    /\ pc = "done"
    /\ headRef # <<>>
    /\ headRef[1].ok
    /\ origin = <<[present |-> FALSE, urls |-> <<>>]>>
    /\ Is(err, ErrNoRemoteOrigin)


\* the mount loadPipelineConfigFromVault reads under
ConfiguredMount == IF envMount = "" THEN DefaultVaultPipelineMount ELSE envMount

\* the secret the locator names exists where GetKVSecret looks
SecretStored == envVaultPath = vaultPath /\ ConfiguredMount = vaultMount

\* C9: a configured secret locator makes the secret-backed path the only one
\* used: the file is never read, and a failure of the secret path (the client
\* cannot be made, the secret is not found, its data is not a pipeline
\* definition) is the returned error with no result, also when a valid file
\* path is configured. The file is read only when no locator is configured,
\* and then no Vault call is made. With neither configured the result is
\* ErrPipelineConfigRequired.
C9_SourcePrecedence ==
    cfgPc = "loaded" =>
        /\ envVaultPath # <<>> =>
              /\ fileReads = <<>>
              /\ factoryCalls = 1
              /\ factoryErr # NoErr => cfgErr = factoryErr /\ cfgOut = <<>> /\ vaultReads = <<>>
              /\ factoryErr = NoErr =>
                    vaultReads = <<[path |-> envVaultPath, mount |-> ConfiguredMount]>>
              /\ factoryErr = NoErr /\ ~SecretStored =>
                    Is(cfgErr, ErrVaultSecretNotFound) /\ cfgOut = <<>>
              /\ cfgOut # <<>> => factoryErr = NoErr /\ SecretStored /\ cfgErr = NoErr
              /\ cfgOut = <<>> => cfgErr # NoErr
        /\ fileReads # <<>> => envVaultPath = <<>>
        /\ envVaultPath = <<>> /\ envConfigPath # "" =>
              /\ factoryCalls = 0
              /\ vaultReads = <<>>
              /\ fileReads = <<envConfigPath>>
        /\ envVaultPath = <<>> /\ envConfigPath = "" =>
              /\ cfgErr = ErrPipelineConfigRequired
              /\ cfgOut = <<>>
              /\ factoryCalls = 0 /\ vaultReads = <<>> /\ fileReads = <<>>

\* a locator and a valid file are both configured, the secret is not found
C9_Witness ==
    /\ cfgPc = "loaded"
    /\ envVaultPath # <<>>
    /\ envConfigPath # ""
    /\ file = [exists |-> TRUE, readable |-> TRUE, text |-> "valid"]
    /\ factoryErr = NoErr
    /\ ~SecretStored
    /\ cfgOut = <<>>
    /\ Is(cfgErr, ErrVaultSecretNotFound)
    /\ fileReads = <<>>

HasHash(str) == \E i \in 1..Len(str) : str[i] = "#"

\* C10: a locator with one or more '#' is split at the last one: the path is
\* everything before it, the key everything after it (no '#' in the key, and
\* the empty key when the locator ends in '#'); a locator without '#' is the
\* path as a whole and the key is "config".
C10_SplitAtLastHash ==
    cfgPc = "parsed" =>
        LET r == pathKey[1]
        IN IF HasHash(locator)
           THEN /\ r.path \o <<"#">> \o r.key = locator
                /\ ~HasHash(r.key)
                /\ locator[Len(locator)] = "#" => r.key = <<>>
           ELSE /\ r.path = locator
                /\ r.key = <<"c", "o", "n", "f", "i", "g">>

\* a locator with two '#' has been parsed
C10_Witness ==
    /\ cfgPc = "parsed"
    /\ locator = <<"a", "#", "b", "#", "k">>
    /\ pathKey = <<[path |-> <<"a", "#", "b">>, key |-> <<"k">>]>>


\* the secret source has answered the one fetch with the stored mapping
Fetched ==
    /\ cfgPc = "loaded"
    /\ envVaultPath # <<>>
    /\ factoryErr = NoErr
    /\ vaultReads = <<[path |-> vaultPath, mount |-> vaultMount]>>

\* the key the locator resolves to
ResolvedKey == parseVaultPath(envVaultPath).key

\* C11: the secret is fetched with the path that is the locator's text before
\* its last '#' (the whole locator when it has none), never with the '#key'
\* suffix, and with the configured mount, "secret" when none is configured.
C11_FetchBasePathAndMount ==
    cfgPc = "loaded" /\ envVaultPath # <<>> /\ factoryErr = NoErr =>
        /\ Len(vaultReads) = 1
        /\ LET path == vaultReads[1].path
               n == Len(path)
           IN IF HasHash(envVaultPath)
              THEN /\ n < Len(envVaultPath)
                   /\ SubSeq(envVaultPath, 1, n) = path
                   /\ envVaultPath[n + 1] = "#"
                   /\ \A i \in (n + 2)..Len(envVaultPath) : envVaultPath[i] # "#"
              ELSE path = envVaultPath
        /\ vaultReads[1].mount = (IF envMount = "" THEN "secret" ELSE envMount)

\* C12: when the fetched mapping holds the resolved key with a string value,
\* the result is the parse of that string: the definition when it parses,
\* ErrPipelineConfigInvalid and no definition when it does not.
C12_KeyStringParsed ==
    (/\ Fetched
     /\ HasKey(vaultData, ResolvedKey)
     /\ Lookup(vaultData, ResolvedKey).t = "string") =>
        LET r == Unmarshal(Lookup(vaultData, ResolvedKey).s)
        IN IF r.err = NoErr
           THEN cfgOut = r.cfg /\ cfgErr = NoErr
           ELSE cfgOut = <<>> /\ Is(cfgErr, ErrPipelineConfigInvalid)

\* C13: when the resolved key is absent from the fetched mapping, or its
\* value is not a string, the result is the field-by-field parse of the whole
\* mapping: the definition when it parses, ErrPipelineConfigInvalid when not.
C13_WholeMappingFallback ==
    (/\ Fetched
     /\ \/ ~HasKey(vaultData, ResolvedKey)
        \/ Lookup(vaultData, ResolvedKey).t # "string") =>
        IF Marshalable(JObj(vaultData)) /\ Decode(JObj(vaultData)).err = NoErr
        THEN cfgOut = Decode(JObj(vaultData)).cfg /\ cfgErr = NoErr
        ELSE cfgOut = <<>> /\ Is(cfgErr, ErrPipelineConfigInvalid)

\* the secret's "config" key holds a valid serialized definition, the locator
\* resolves to that key, and the configured file holds the same text
SameTextInSecretAndFile ==
    /\ Fetched
    /\ ResolvedKey = <<"c", "o", "n", "f", "i", "g">>
    /\ HasKey(vaultData, ResolvedKey)
    /\ Lookup(vaultData, ResolvedKey).t = "string"
    /\ Unmarshal(Lookup(vaultData, ResolvedKey).s).err = NoErr
    /\ envConfigPath # ""
    /\ file.exists /\ file.readable
    /\ file.text = Lookup(vaultData, ResolvedKey).s

\* C14: a valid serialized definition held by the secret's "config" key
\* resolves to the same structured definition as the same text in a file.
C14_SecretEqualsFile ==
    SameTextInSecretAndFile =>
        /\ cfgErr = NoErr
        /\ cfgOut # <<>>
        /\ cfgOut = loadPipelineConfigFromFile(envConfigPath).cfg

\* the text with a field the definition does not name, in a secret that has
\* another field besides "config"
C14_Witness ==
    /\ SameTextInSecretAndFile
    /\ file.text = "minimal"
    /\ cfgOut = <<[version |-> "", name |-> "m", steps |-> <<>>]>>


\* configuration loading, repository opening, finder construction and Resolve
\* all succeed
StepsSucceed ==
    /\ deps # <<>>
    /\ deps[1].configErr = NoErr
    /\ deps[1].repoErr = NoErr
    /\ deps[1].finderErr = NoErr
    /\ deps[1].resolve.err = NoErr

\* the correlation id as one whole line
IdLine == [text |-> deps[1].resolve.id, complete |-> TRUE]

\* C15 as stated: when the four steps succeed runResolve writes the id once as
\* one line and returns success; when one of them fails it writes nothing and
\* returns an error.
C15_OneLineOrNothing ==
    cmdPc = "returned" /\ deps # <<>> =>
        IF StepsSucceed
        THEN writes = <<deps[1].resolve.id>> /\ stdout = <<IdLine>> /\ cmdRet = NoErr
        ELSE writes = <<>> /\ stdout = <<>> /\ cmdRet # NoErr

\* C15 as amended: when the four steps succeed runResolve makes the one write
\* of the id; it returns success, with the id as the only line of the output,
\* when that write succeeds, and an error that wraps the write's, with no whole
\* line on the output, when it fails. When one of the four steps fails nothing
\* is written and an error is returned. No more than one write is ever made.
C15_OneLineOrNothingAmended ==
    /\ Len(writes) <= 1
    /\ cmdPc = "returned" /\ deps # <<>> =>
          IF StepsSucceed /\ deps[1].writeErr = NoErr
          THEN writes = <<deps[1].resolve.id>> /\ stdout = <<IdLine>> /\ cmdRet = NoErr
          ELSE IF StepsSucceed
          THEN /\ writes = <<deps[1].resolve.id>>
               /\ \A k \in 1..Len(stdout) : ~stdout[k].complete
               /\ cmdRet = Wrap("output error", deps[1].writeErr)
          ELSE writes = <<>> /\ stdout = <<>> /\ cmdRet # NoErr

\* a run that succeeded and wrote its line
C15_Witness ==
    /\ cmdPc = "returned"
    /\ StepsSucceed
    /\ stdout = <<[text |-> "cid-a", complete |-> TRUE]>>
    /\ cmdRet = NoErr

\* the number of Close calls made on collaborator c
CloseCount(c) == Cardinality({k \in 1..Len(closes) : closes[k] = c})

\* C16: when runResolve has returned, the repository handle and the slip
\* finder have each been closed once if their construction succeeded, also
\* when finder construction, Resolve or the write failed, and never if it
\* failed or was not reached; no collaborator is ever closed twice.
C16_ClosedExactlyOnce ==
    /\ \A c \in {"repo", "finder"} : CloseCount(c) <= 1
    /\ cmdPc = "returned" /\ deps # <<>> =>
          /\ CloseCount("repo") =
                (IF deps[1].configErr = NoErr /\ deps[1].repoErr = NoErr THEN 1 ELSE 0)
          /\ CloseCount("finder") =
                (IF /\ deps[1].configErr = NoErr /\ deps[1].repoErr = NoErr
                    /\ deps[1].finderErr = NoErr
                 THEN 1 ELSE 0)

\* the finder could not be constructed: the repository is closed, it is not
C16_Witness ==
    /\ cmdPc = "returned"
    /\ deps # <<>>
    /\ deps[1].finderErr # NoErr
    /\ constructed = {"repo"}
    /\ closes = <<"repo">>
    /\ cmdRet # NoErr

\* C17: a Close call leaves the result and the output of runResolve as they
\* were whether it fails or not; all it adds is a warning to the log.
C17_CloseNeverMasks ==
    [][(cmdPc = "close_finder" \/ cmdPc = "close_repo") =>
          (/\ cmdRet' = cmdRet
           /\ stdout' = stdout
           /\ writes' = writes
           /\ \A k \in (Len(logs) + 1)..Len(logs') : logs'[k].level = "warn")
      ]_vars

\* both Close calls failed after a successful run
C17_Witness ==
    /\ cmdPc = "returned"
    /\ StepsSucceed
    /\ deps[1].writeErr = NoErr
    /\ deps[1].repoCloseErr # NoErr
    /\ deps[1].finderCloseErr # NoErr
    /\ closes = <<"finder", "repo">>
    /\ cmdRet = NoErr
    /\ Len(logs) = 2


\* C18: Resolve asks GetCommitAncestry for input.Depth commits when that is
\* positive and for 25 when it is not; GetCommitAncestry itself walks with
\* its argument when positive and with 25 when not, so the bound of a walk
\* is always positive.
C18_DepthDefault ==
    /\ \A k \in 1..Len(calls) :
          calls[k].op = "GetCommitAncestry" =>
              calls[k].depth = (IF input > 0 THEN input ELSE 25)
    /\ (pc = "walk" /\ impl = "gogit") =>
          /\ wdepth > 0
          /\ wdepth = (IF ancArg > 0 THEN ancArg ELSE 25)

\* Resolve was given a negative depth and the walk runs with 25
C18_Witness ==
    /\ pc = "walk"
    /\ caller = "Resolve"
    /\ input < 0
    /\ Len(calls) = 2
    /\ calls[2].depth = 25
    /\ wdepth = 25


\* C19: GetGitContext never fails because of where head points: with head
\* resolved its only errors are those of the origin remote. The context it
\* returns has IsDetached = TRUE and Branch = "" when head is not a named
\* branch, and IsDetached = FALSE and the non-empty branch name when it is, so
\* IsDetached holds exactly when Branch is empty. Resolve, given a context,
\* goes on to the ancestry walk, and to the store query when the walk
\* returned commits, whatever IsDetached is.
C19_DetachedHead ==
    /\ (impl = "gogit" /\ headRef # <<>> /\ headRef[1].ok) =>
          /\ gitCtxErr # NoErr =>
                Is(gitCtxErr, ErrNoRemoteOrigin) \/ Is(gitCtxErr, ErrInvalidRemoteURL)
          /\ gitCtxErr = NoErr =>
                /\ gitCtx # <<>>
                /\ gitCtx[1].IsDetached <=> ~IsBranch(headRef[1].name)
                /\ gitCtx[1].IsDetached <=> gitCtx[1].Branch = ""
                /\ ~gitCtx[1].IsDetached => gitCtx[1].Branch = Short(headRef[1].name)
    /\ (caller = "Resolve" /\ gitCtx # <<>> /\ gitCtxErr = NoErr /\ pc = "done") =>
          /\ Len(calls) >= 2
          /\ calls[2].op = "GetCommitAncestry"
          /\ (ancErr = NoErr /\ ancCommits # <<>>) =>
                Len(calls) = 3 /\ calls[3].op = "FindByCommits"

\* a slip was resolved from a detached head
C19_Witness ==
    /\ impl = "gogit"
    /\ caller = "Resolve"
    /\ pc = "done"
    /\ headRef = <<[ok |-> TRUE, name |-> "HEAD"]>>
    /\ gitCtx # <<>>
    /\ gitCtx[1].IsDetached
    /\ gitCtx[1].Branch = ""
    /\ out # <<>>
    /\ err = NoErr


\* the URL is of one of the two shapes and was parsed
ShapedUrlParsed == urlPc = "parsed" /\ urlParts[1].kind \in {"https", "ssh"}

\* the URL was parsed to owner "/" name
ParsedToOwnerName ==
    /\ urlOut[1].ok
    /\ urlOut[1].name = urlParts[1].owner \o <<"/">> \o urlParts[1].name

\* C20 as stated: every URL of the shape scheme://host/owner/name[.git] and
\* every URL of the shape user@host:owner/name[.git], for any user, with or
\* without whitespace around it, parses to owner/name without the suffix.
C20_ParseRepoFromURL ==
    ShapedUrlParsed => ParsedToOwnerName

\* C20 as amended: every URL http://host/owner/name[.git] or
\* https://host/owner/name[.git], and every URL git@host:owner/name[.git],
\* with or without whitespace around it, parses to owner/name without the
\* suffix; user@host:owner/name[.git] with another user is not recognized.
C20_ParseRepoFromURLAmended ==
    ShapedUrlParsed =>
        IF urlParts[1].kind = "ssh" /\ urlParts[1].head # <<"g", "i", "t", "@", "h", ":">>
        THEN ~urlOut[1].ok
        ELSE ParsedToOwnerName

\* a git@ URL with the suffix and whitespace around it was parsed
C20_Witness ==
    /\ ShapedUrlParsed
    /\ url = <<"\t", "g", "i", "t", "@", "h", ":", "o", "-", "1", "/", "a", ".", "b",
               ".", "g", "i", "t", " ">>
    /\ urlOut = <<[name |-> <<"o", "-", "1", "/", "a", ".", "b">>, ok |-> TRUE]>>


\* C21: when the URL of the origin remote is of neither shape, GetGitContext
\* returns no context and an error of the ErrInvalidRemoteURL kind.
C21_InvalidRemoteURL ==
    (/\ impl = "gogit"
     /\ origin # <<>>
     /\ origin[1].present
     /\ Len(origin[1].urls) > 0
     /\ origin[1].urls[1] \in InvalidRemoteURLs) =>
        /\ gitCtx = <<>>
        /\ Is(gitCtxErr, ErrInvalidRemoteURL)
        /\ ~Is(gitCtxErr, ErrNoRemoteOrigin)

\* GetGitContext was called on a checkout whose origin URL has three segments
C21_Witness ==
    /\ impl = "gogit"
    /\ caller = "GetGitContext"
    /\ pc = "done"
    /\ headRef # <<>> /\ headRef[1].ok
    /\ origin = <<[present |-> TRUE, urls |-> <<UrlThreeSegments>>]>>
    /\ gitCtx = <<>>
    /\ Is(gitCtxErr, ErrInvalidRemoteURL)


\* the definition came from the file: no locator, a file path, and loaded
FileBacked == cfgPc = "loaded" /\ envVaultPath = <<>> /\ envConfigPath # ""

\* C22: file-backed resolution gives ErrPipelineConfigNotFound exactly when
\* the file does not exist, an error that is neither that nor
\* ErrPipelineConfigInvalid when the file exists and cannot be read,
\* ErrPipelineConfigInvalid when what was read does not parse, and the parsed
\* definition otherwise.
C22_FileErrors ==
    FileBacked =>
        /\ Is(cfgErr, ErrPipelineConfigNotFound) <=> ~file.exists
        /\ cfgErr # NoErr <=> cfgOut = <<>>
        /\ (file.exists /\ ~file.readable) =>
              /\ cfgErr # NoErr
              /\ ~Is(cfgErr, ErrPipelineConfigInvalid)
        /\ (file.exists /\ file.readable /\ file.text \in {"garbage", "1"}) =>
              Is(cfgErr, ErrPipelineConfigInvalid)
        /\ (file.exists /\ file.readable /\ file.text = "valid") =>
              cfgOut = <<[version |-> "1", name |-> "test-pipeline",
                          steps |-> <<"push_parsed">>]>>
        /\ (file.exists /\ file.readable /\ file.text = "minimal") =>
              cfgOut = <<[version |-> "", name |-> "m", steps |-> <<>>]>>

\* the file is there and cannot be read
C22_Witness ==
    /\ FileBacked
    /\ file.exists /\ ~file.readable
    /\ cfgOut = <<>>
    /\ cfgErr # NoErr
    /\ ~Is(cfgErr, ErrPipelineConfigNotFound)


\* the error that made this Resolve fail: that of the last collaborator
\* called, or ErrNoAncestorSlip when the store answered without a slip
ResolveCause ==
    IF Len(calls) = 1 THEN gitCtxErr
    ELSE IF Len(calls) = 2 THEN ancErr
    ELSE IF findRes.err # NoErr THEN findRes.err
    ELSE ErrNoAncestorSlip

\* C23: a Resolve that has returned gave an output or an error, never both and
\* never neither; its error still matches everything the error that caused it
\* matches.
C23_ErrorKindKept ==
    (caller = "Resolve" /\ pc = "done") =>
        /\ out = <<>> <=> err # NoErr
        /\ err # NoErr =>
              /\ ResolveCause # NoErr
              /\ \A k \in 1..Len(ResolveCause.chain) :
                    Is(err, Sentinel(ResolveCause.chain[k]))

\* Resolve failed because the walk was cancelled
C23_Witness ==
    /\ caller = "Resolve"
    /\ pc = "done"
    /\ impl = "gogit"
    /\ Len(calls) = 2
    /\ Is(ancErr, Sentinel("context.Canceled"))
    /\ Is(err, Sentinel("context.Canceled"))
    /\ out = <<>>


\* GetGitContext ran on a checkout whose head reference does not resolve
HeadUnresolved == impl = "gogit" /\ headRef # <<>> /\ ~headRef[1].ok

\* C24 as stated: when head cannot be resolved GetGitContext returns no
\* context and an error of the ErrRepositoryNotFound kind, the remote
\* configuration is not read, and Resolve returns that error after this one
\* call.
C24_HeadFailure ==
    HeadUnresolved =>
        /\ gitCtx = <<>>
        /\ Is(gitCtxErr, ErrRepositoryNotFound)
        /\ origin = <<>>
        /\ (caller = "Resolve" /\ pc = "done") =>
              Len(calls) = 1 /\ out = <<>> /\ Is(err, ErrRepositoryNotFound)

\* C24 as amended: when head cannot be resolved GetGitContext returns no
\* context and an error that wraps the one of the head lookup and is not of
\* the ErrRepositoryNotFound kind, the remote configuration is not read, and
\* Resolve returns that error, wrapped, after this one call.
C24_HeadFailureAmended ==
    HeadUnresolved =>
        /\ gitCtx = <<>>
        /\ Is(gitCtxErr, ErrReferenceNotFound)
        /\ ~Is(gitCtxErr, ErrRepositoryNotFound)
        /\ origin = <<>>
        /\ (caller = "Resolve" /\ pc = "done") =>
              /\ Len(calls) = 1
              /\ out = <<>>
              /\ Is(err, ErrReferenceNotFound)
              /\ ~Is(err, ErrRepositoryNotFound)

\* Resolve returned after the head lookup failed
C24_Witness ==
    /\ HeadUnresolved
    /\ caller = "Resolve"
    /\ pc = "done"
    /\ calls = <<Call("GetGitContext", 0, <<>>, <<>>)>>
    /\ Is(err, ErrReferenceNotFound)


\* the secret-backed path was taken and the client could not be made
ClientFailed == cfgPc = "loaded" /\ envVaultPath # <<>> /\ factoryErr # NoErr

\* the secret-backed path was taken and the fetch of the secret failed
FetchFailed ==
    /\ cfgPc = "loaded"
    /\ envVaultPath # <<>>
    /\ factoryErr = NoErr
    /\ GetKVSecret(envVaultPath, ConfiguredMount).err # NoErr

\* the returned error carries the path as one of its formatted arguments
NamesPath(e, path) == \E i \in 1..Len(e.args) : e.args[i] = path

\* C25 as stated: a failure to make the secret client and a failure to fetch
\* the secret are both returned as an error that names the secret path, with
\* no definition.
C25_FetchFailureNamesPath ==
    (ClientFailed \/ FetchFailed) =>
        /\ cfgOut = <<>>
        /\ cfgErr # NoErr
        /\ NamesPath(cfgErr, envVaultPath)

\* C25 as amended: a failure to fetch the secret is returned as an error of
\* the ErrVaultSecretNotFound kind that names the path the fetch was made with
\* and wraps the cause; a failure to make the secret client is returned as the
\* factory's own error, unchanged, which names no path, and no fetch is made.
\* Neither returns a definition.
C25_FetchFailureAmended ==
    /\ FetchFailed =>
          /\ cfgOut = <<>>
          /\ Is(cfgErr, ErrVaultSecretNotFound)
          /\ Is(cfgErr, ErrSecretMissing)
          /\ Len(vaultReads) = 1
          /\ NamesPath(cfgErr, vaultReads[1].path)
          /\ vaultReads[1].path = envVaultPath
    /\ ClientFailed =>
          /\ cfgOut = <<>>
          /\ cfgErr = factoryErr
          /\ cfgErr # NoErr
          /\ ~NamesPath(cfgErr, envVaultPath)
          /\ vaultReads = <<>>

\* the client could not be made while a locator was configured
C25_Witness ==
    /\ ClientFailed
    /\ envVaultPath = <<"p">>
    /\ Is(cfgErr, ErrVaultClientFailed)
    /\ factoryCalls = 1


\* C26: in every sequence GetCommitAncestry returns, the first element is head
\* and each later element is the first parent of the element before it.
C26_FirstParentLinks ==
    (pc = "ancestry_done" /\ impl = "gogit" /\ ancErr = NoErr) =>
        /\ Len(ancCommits) > 0
        /\ ancCommits[1] = head
        /\ \A i \in 2..Len(ancCommits) :
               /\ parents[ancCommits[i - 1]] # <<>>
               /\ ancCommits[i] = parents[ancCommits[i - 1]][1]


\* the walk of GetCommitAncestry took a step: the iterator handed out a commit
\* or ended
WalkMoved == pc = "walk" /\ <<pc, heap, seen, commits>>' # <<pc, heap, seen, commits>>

\* C27: GetCommitAncestry terminates on every commit graph, a commit that is
\* its own parent and a cycle of parents included, and never collects more
\* than depth commits: every step of its walk either returns or marks one
\* more commit of the finite graph as seen, no commit waiting in the heap is
\* a seen one, and the collected commits never exceed the depth in use.
C27_WalkTerminates ==
    [][WalkMoved =>
          (/\ heap \cap seen = {}
           /\ pc' = "ancestry_done" \/ Cardinality(seen') = Cardinality(seen) + 1
           /\ seen' \subseteq Commits
           /\ Len(commits') <= wdepth
           /\ pc' = "ancestry_done" => Len(ancCommits') <= wdepth)]_vars

\* the walk returned on a graph whose parent edges lead back to head, having
\* stopped at the depth asked for
C27_Witness ==
    /\ impl = "gogit"
    /\ pc = "ancestry_done"
    /\ \E c \in Commits : head \in Range(parents[c])
    /\ ancErr = NoErr
    /\ ancArg = 2
    /\ Len(ancCommits) = 2


\* what Resolve returns for the answers its collaborators gave in this call
ResolveOutcome ==
    IF gitCtxErr # NoErr
    THEN [out |-> <<>>, err |-> Wrap("failed to get git context", gitCtxErr)]
    ELSE IF ancErr # NoErr
    THEN [out |-> <<>>, err |-> Wrap("failed to get commit ancestry", ancErr)]
    ELSE ResolveResult(findRes, gitCtx[1], ancCommits)

\* C28: whatever Resolve calls the resolver has returned from before, a call
\* asks its collaborators anew, GetGitContext first, GetCommitAncestry with
\* this call's depth, the store with this call's repository and commits
\* whenever the call gets that far, and its result is the one that follows
\* from this call's answers alone.
C28_NoCaching ==
    (caller = "Resolve" /\ pc = "done") =>
        /\ Len(calls) >= 1
        /\ calls[1] = Call("GetGitContext", 0, <<>>, <<>>)
        /\ gitCtxErr = NoErr =>
              /\ Len(calls) >= 2
              /\ calls[2] = Call("GetCommitAncestry",
                                 IF input <= 0 THEN DefaultAncestryDepth ELSE input, <<>>, <<>>)
        /\ (gitCtxErr = NoErr /\ ancErr = NoErr) =>
              /\ Len(calls) = 3
              /\ calls[3] = Call("FindByCommits", 0, gitCtx[1].Repository, ancCommits)
        /\ out = ResolveOutcome.out
        /\ err = ResolveOutcome.err

\* a call on a resolver that has already returned from one reached the store
\* and returned an output
C28_Witness ==
    /\ resolves >= 1
    /\ caller = "Resolve"
    /\ pc = "done"
    /\ Len(calls) = 3
    /\ calls[3].op = "FindByCommits"
    /\ out # <<>>
    /\ err = NoErr


\* C29: when GetCommitAncestry has returned without an error, the empty
\* sequence included, Resolve never reads the first element of an empty
\* sequence: it goes on to the store query or returns, and does not panic.
C29_NoEmptyIndex ==
    (caller = "Resolve" /\ ancErr = NoErr /\ Len(calls) >= 2) =>
        /\ pc # "panic"
        /\ pc = "done" => (out # <<>> \/ err # NoErr)


\* Resolve returned an output
Resolved == caller = "Resolve" /\ pc = "done" /\ out # <<>>

\* the commits this Resolve call passed to FindByCommits
Queried == Range(calls[3].commits)

====
